---- MODULE Spec2Model ----
(***************************************************************************)
(* A state-machine model of the WebM segment muxer of libwebm              *)
(* (mkvmuxer.cpp): Segment, Cluster, Cues, SeekHead, SegmentInfo, Tracks   *)
(* and the writer they emit into.                                          *)
(*                                                                         *)
(* The output is modelled at the granularity of EBML fields: the writer    *)
(* holds a map from byte offset to the field ("chunk") written there, with *)
(* the field's length in bytes, so positions, size fields and back-patches *)
(* are those of the code.  Every function of the code is an operator from  *)
(* an execution record x to an execution record:                           *)
(*    x.seg     the Segment object (its members keep the source's names),  *)
(*    x.w       the IMkvWriter,                                            *)
(*    x.ret     FALSE once a function on the call path has returned false, *)
(*    x.fault   "none", or why the process stopped (a failed assert, or    *)
(*              undefined behaviour),                                      *)
(*    x.ndebug  whether this build compiles assert() out,                  *)
(*    x.skipped whether a failed assert was compiled out so far.           *)
(***************************************************************************)
EXTENDS Integers, Sequences, FiniteSets, TLC

\* ------------------------------------------------------------------ bounds

\* AddFrame calls per run.
MaxFrames == 3
\* AddFrame calls per run of the audio/video interleavings (SpecAV).
MaxFramesAV == 4
\* Calls the client makes after the first Segment::Finalize.
MaxAfterFinalize == 1
\* Calls the client makes while it sets a segment up.
MaxSetupCalls == 4
\* Calls made on one Cluster object.
MaxClusterCalls == 4
\* Calls made on one SeekHead object: one more than it has slots.
MaxSeekCalls == 6
\* The writes and seeks after the EBML header, any one of which may fail.
MaxWriterCalls == 90
\* Frames of a run that varies the optional fields of the headers.
MaxFramesOptions == 2

\* Timestamps (ns) the client passes to AddFrame.
Timestamps == {0, 10000000, 20000000, 33000000}
\* Payload lengths (bytes) the client passes to AddFrame.
FrameLengths == {1}
\* SegmentInfo::timecode_scale values: the default (1 ms ticks) and 1 us ticks.
TimecodeScales == {1000000, 1000}
\* max_cluster_duration settings (ns); 0 = no limit.
ClusterDurations == {0, 15000000}
\* The optional fields of a track: lengths of codec private data, language and
\* name (-1: not set), display size, stereo mode (12 is refused), frame rate
\* and bit depth (0: not set).
TrackOptions ==
    [codec_private : {-1, 3}, language : {-1, 3}, name : {-1, 5},
     display : {<<0, 0>>, <<320, 0>>, <<320, 240>>}, stereo_mode : {0, 1, 12},
     frame_rate : {0, 30}, bit_depth : {0, 16}]
\* SegmentInfo durations the client sets: none, and 5.0.
InfoDurations == {<<-1, 1>>, <<5, 1>>}

\* ------------------------------------------------------- program constants

kFile == 1
kLive == 2
kVideo == 1
kAudio == 2
kSeekEntryCount == 5
\* The "unknown size" value 0x01FFFFFFFFFFFFFF serialized in 8 bytes.
kUnknownSize == -1
\* An empty SeekHead slot (seek_entry_id_[i] == 0).
kNoId == "0"
\* strlen of "libwebm-%d.%d.%d.%d" with one-digit version numbers.
kAppNameLen == 15
\* Bytes of a TrackUID: seven random bytes, the first one non-zero.
kTrackUidBytes == 7

\* ---------------------------------------------------------------- helpers

RECURSIVE SumSeq(_)
SumSeq(s) == IF s = <<>> THEN 0 ELSE Head(s) + SumSeq(Tail(s))

\* static_cast<short>(v): the value modulo 2^16, as a signed 16-bit integer.
ToShort(v) == ((v + 32768) % 65536) - 32768

\* static_cast<char>(v) for a track number.
ToChar(v) == ((v + 128) % 256) - 128

\* ------------------------------------------------------------------ writer

Chunk(kind, len, val) == [kind |-> kind, len |-> len, val |-> val]

Overlaps(p, n, q, k) == p < q + k /\ q < p + n

\* IMkvWriter::Write at the current position: the bytes of the chunk replace
\* what was there; a field that is partly overwritten is no longer a field.
WriterWrite(w, c) ==
    [w EXCEPT
       !.file = IF w.pos >= w.end
                THEN (w.pos :> c) @@ w.file
                ELSE [q \in ({p \in DOMAIN w.file :
                                 ~Overlaps(p, w.file[p].len, w.pos, c.len)}
                             \cup {w.pos}) |->
                        IF q = w.pos THEN c ELSE w.file[q]],
       !.pos = w.pos + c.len,
       !.end = IF w.pos + c.len > w.end THEN w.pos + c.len ELSE w.end,
       !.writes = w.writes + 1]

\* IMkvWriter::Position(int64): seek to an absolute offset.
WriterSetPosition(w, p) ==
    [w EXCEPT !.pos = p, !.seeks = w.seeks + 1]

\* The writer reports a failure for its fail_at-th write or seek (0: for none)
\* and leaves the output and its position as they are.
WriterFails(w) == w.fail_at = w.writes + w.seeks + w.failures + 1

WriterFailed(w) == [w EXCEPT !.failures = w.failures + 1]

\* The writer that fails at the n-th write or seek from now.
WriterFailingAt(w, n) == [w EXCEPT !.fail_at = w.writes + w.seeks + n]

\* ------------------------------------------------------- execution records

Stop(x) == ~x.ret \/ x.fault # "none"

Fail(x) == IF Stop(x) THEN x ELSE [x EXCEPT !.ret = FALSE]

Fault(x, why) == IF Stop(x) THEN x ELSE [x EXCEPT !.fault = why]

\* assert(cond): aborts in a build with assertions, is compiled out with NDEBUG.
AssertThat(x, cond, why) ==
    IF Stop(x) \/ cond THEN x
    ELSE IF x.ndebug THEN [x EXCEPT !.skipped = TRUE]
    ELSE [x EXCEPT !.fault = why]

\* The statements that follow a call that returned true.
Then(x, Op(_)) == IF Stop(x) THEN x ELSE Op(x)

\* assert(stop_position - payload_position == size).
AssertWritten(x, payload_position, size, why) ==
    AssertThat(x, x.w.pos - payload_position = size, why)

\* A write whose failure goes unnoticed: the caller carries on.
EmitAndCarryOn(x, c) ==
    IF Stop(x) THEN x
    ELSE IF WriterFails(x.w) THEN [x EXCEPT !.w = WriterFailed(x.w)]
    ELSE [x EXCEPT !.w = WriterWrite(x.w, c)]

\* writer->Write(...) of one field; the caller returns false when it fails.
Emit(x, c) ==
    IF Stop(x) THEN x
    ELSE IF WriterFails(x.w) THEN [x EXCEPT !.w = WriterFailed(x.w), !.ret = FALSE]
    ELSE [x EXCEPT !.w = WriterWrite(x.w, c)]

\* writer->Position(pos), the seek; a negative offset is refused, and the
\* caller returns false when the seek fails.
Seek(x, p) ==
    IF Stop(x) THEN x
    ELSE IF p < 0 THEN [x EXCEPT !.ret = FALSE]
    ELSE IF WriterFails(x.w) THEN [x EXCEPT !.w = WriterFailed(x.w), !.ret = FALSE]
    ELSE [x EXCEPT !.w = WriterSetPosition(x.w, p)]

\* ------------------------------------------------------- EBML (mkvmuxerutil)

\* Bytes of an element id (webmids.hpp): the Matroska ids.
IdSize(id) ==
    CASE id \in {"EBML", "Segment", "SeekHead", "Info", "Tracks", "Cluster", "Cues"} -> 4
      [] id \in {"TimecodeScale"} -> 3
      [] id \in {"EBMLVersion", "EBMLReadVersion", "EBMLMaxIDLength",
                 "EBMLMaxSizeLength", "DocType", "DocTypeVersion",
                 "DocTypeReadVersion", "Seek", "SeekID", "SeekPosition",
                 "Duration", "MuxingApp", "WritingApp", "TrackUID",
                 "CueBlockNumber", "DisplayWidth", "DisplayHeight",
                 "StereoMode", "BitDepth", "FrameRate", "Language", "Name",
                 "CodecPrivate"} -> 2
      [] OTHER -> 1

\* Minimum number of bytes of an unsigned integer; a negative number stands
\* for the uint64 with the same bits (-1 for 0xFFFFFFFFFFFFFFFF).
GetUIntSize(v) ==
    IF v < 0 THEN 8
    ELSE IF v < 256 THEN 1
    ELSE IF v < 65536 THEN 2
    ELSE IF v < 16777216 THEN 3
    ELSE 4

\* EbmlElementSize(type, uint64 value, master): a master is its id and an 8-byte
\* size; any other element is its id, one size byte and the value's bytes.
EbmlElementSize(id, value, master) ==
    IF master THEN IdSize(id) + 8 ELSE IdSize(id) + 1 + GetUIntSize(value)

\* EbmlElementSize for a string or a byte blob of n bytes.
EbmlElementSizeBytes(id, n) == IdSize(id) + 1 + n

\* EbmlElementSize(type, float value, false).
EbmlElementSizeFloat(id) == IdSize(id) + 1 + 4

\* WriteEbmlMasterElement(writer, type, size).
WriteEbmlMasterElement(x, id, size) ==
    Emit(x, Chunk(id, EbmlElementSize(id, size, TRUE), <<size>>))

\* WriteEbmlElement(writer, type, uint64 value).
WriteEbmlElement(x, id, value) ==
    Emit(x, Chunk(id, EbmlElementSize(id, value, FALSE), <<value>>))

\* WriteEbmlElement(writer, type, const char*) of a string of n bytes.
WriteEbmlElementBytes(x, id, n) ==
    Emit(x, Chunk(id, EbmlElementSizeBytes(id, n), <<n>>))

\* WriteEbmlElement(writer, type, float value); the value is num/den.
WriteEbmlElementFloat(x, id, num, den) ==
    Emit(x, Chunk(id, EbmlElementSizeFloat(id), <<num, den>>))

\* SerializeInt(writer, id, 4) of a 4-byte element id.
SerializeId(x, id) == Emit(x, Chunk(id, 4, <<>>))

\* SerializeInt(writer, 0x01FFFFFFFFFFFFFF, 8) and WriteUIntSize(writer, v, 8).
WriteUIntSize(x, value) == Emit(x, Chunk("Size", 8, <<value>>))

\* WriteVoidElement(writer, size): a Void element of size bytes in all; 0 bytes
\* (failure) when size cannot hold the id and a length.
WriteVoidElement(x, size) ==
    IF size < 2 THEN Fail(x) ELSE Emit(x, Chunk("Void", size, <<size>>))

\* WriteSimpleBlock: the bytes of a SimpleBlock element, id, 4-byte size,
\* track number, 16-bit timecode, flags, payload.
SimpleBlockSize(length) == 1 + 4 + 1 + 2 + 1 + length

WriteSimpleBlock(x, frame, length, track_number, timecode, is_key) ==
    Emit(x, Chunk("SimpleBlock", SimpleBlockSize(length),
                  <<track_number, timecode, IF is_key THEN 128 ELSE 0,
                    frame, length>>))

\* An optional element: written only when present.
WriteEbmlElementIf(x, present, id, value) ==
    IF present THEN WriteEbmlElement(x, id, value) ELSE x

WriteEbmlElementBytesIf(x, present, id, n) ==
    IF present THEN WriteEbmlElementBytes(x, id, n) ELSE x

WriteEbmlElementFloatIf(x, present, id, num, den) ==
    IF present THEN WriteEbmlElementFloat(x, id, num, den) ELSE x

\* ------------------------------------------------------------------ tracks

\* A VideoTrack as Segment::AddVideoTrack leaves it (strings by their length,
\* -1 = NULL; number 0 until Tracks::AddTrack sets it).
NewVideoTrack(width, height) ==
    [number |-> 0, type |-> kVideo, uid_size |-> kTrackUidBytes,
     codec_id |-> 5, codec_private_length |-> -1, language |-> -1, name |-> -1,
     width |-> width, height |-> height, display_width |-> 0,
     display_height |-> 0, frame_rate |-> 0, stereo_mode |-> 0,
     bit_depth |-> 0, channels |-> 0, sample_rate |-> 0]

\* An AudioTrack as Segment::AddAudioTrack leaves it.
NewAudioTrack(sample_rate, channels) ==
    [number |-> 0, type |-> kAudio, uid_size |-> kTrackUidBytes,
     codec_id |-> 8, codec_private_length |-> -1, language |-> -1, name |-> -1,
     width |-> 0, height |-> 0, display_width |-> 0,
     display_height |-> 0, frame_rate |-> 0, stereo_mode |-> 0,
     bit_depth |-> 0, channels |-> channels, sample_rate |-> sample_rate]

\* VideoTrack::SetStereoMode: only the modes 0, 1, 2, 3 and 11 are taken.
VideoTrack_SetStereoMode(t, stereo_mode) ==
    IF stereo_mode \notin {0, 1, 2, 3, 11} THEN t
    ELSE [t EXCEPT !.stereo_mode = stereo_mode]

\* The setters the client calls on a track before the first frame:
\* Track::SetCodecPrivate, Track::language and Track::name (a length of -1: the
\* setter is not called), and the setters of the video or audio settings.
Track_SetOptions(t, o) ==
    IF t.type = kVideo
    THEN [VideoTrack_SetStereoMode(t, o.stereo_mode) EXCEPT
             !.codec_private_length = o.codec_private,
             !.language = o.language, !.name = o.name,
             !.display_width = o.display[1], !.display_height = o.display[2],
             !.frame_rate = o.frame_rate]
    ELSE [t EXCEPT
             !.codec_private_length = o.codec_private,
             !.language = o.language, !.name = o.name,
             !.bit_depth = o.bit_depth]

\* AddTrack that appends the track without numbering it.
Tracks_AddTrackUnnumbered(entries, track) ==
    Append(entries, track)

\* Tracks::AddTrack: the track gets the new 1-based index as its number.
Tracks_AddTrack(entries, track) ==
    Append(entries, [track EXCEPT !.number = Len(entries) + 1])

\* Tracks::GetTrackByNumber: the index of the first entry numbered tn, 0 = NULL.
Tracks_GetTrackByNumber(entries, tn) ==
    IF \E i \in 1..Len(entries) : entries[i].number = tn
    THEN CHOOSE i \in 1..Len(entries) :
            /\ entries[i].number = tn
            /\ \A j \in 1..(i - 1) : entries[j].number # tn
    ELSE 0

\* Tracks::TrackIsAudio (of a registered track number).
Tracks_TrackIsAudio(entries, tn) ==
    entries[Tracks_GetTrackByNumber(entries, tn)].type = kAudio

\* Tracks::TrackIsVideo (of a registered track number).
Tracks_TrackIsVideo(entries, tn) ==
    entries[Tracks_GetTrackByNumber(entries, tn)].type = kVideo

\* Track::PayloadSize of the base class.
Track_PayloadSize(t) ==
    EbmlElementSize("TrackNumber", t.number, FALSE)
    + EbmlElementSizeBytes("TrackUID", t.uid_size)
    + EbmlElementSize("TrackType", t.type, FALSE)
    + (IF t.codec_id >= 0 THEN EbmlElementSizeBytes("CodecID", t.codec_id) ELSE 0)
    + (IF t.codec_private_length >= 0
       THEN EbmlElementSizeBytes("CodecPrivate", t.codec_private_length) ELSE 0)
    + (IF t.language >= 0 THEN EbmlElementSizeBytes("Language", t.language) ELSE 0)
    + (IF t.name >= 0 THEN EbmlElementSizeBytes("Name", t.name) ELSE 0)

\* Track::Size of the base class.
Track_Size(t) ==
    Track_PayloadSize(t) + EbmlElementSize("TrackEntry", Track_PayloadSize(t), TRUE)

\* VideoTrack::VideoPayloadSize.
VideoTrack_VideoPayloadSize(t) ==
    EbmlElementSize("PixelWidth", t.width, FALSE)
    + EbmlElementSize("PixelHeight", t.height, FALSE)
    + (IF t.display_width > 0
       THEN EbmlElementSize("DisplayWidth", t.display_width, FALSE) ELSE 0)
    + (IF t.display_height > 0
       THEN EbmlElementSize("DisplayHeight", t.display_height, FALSE) ELSE 0)
    + (IF t.stereo_mode > 0
       THEN EbmlElementSize("StereoMode", t.stereo_mode, FALSE) ELSE 0)
    + (IF t.frame_rate > 0 THEN EbmlElementSizeFloat("FrameRate") ELSE 0)

\* The AudioSettings payload computed in AudioTrack::Size, PayloadSize and Write.
AudioTrack_AudioPayloadSize(t) ==
    EbmlElementSizeFloat("SamplingFrequency")
    + EbmlElementSize("Channels", t.channels, FALSE)
    + (IF t.bit_depth > 0 THEN EbmlElementSize("BitDepth", t.bit_depth, FALSE) ELSE 0)

\* The settings master of a track with its header.
Track_SettingsSize(t) ==
    IF t.type = kVideo
    THEN VideoTrack_VideoPayloadSize(t)
         + EbmlElementSize("Video", VideoTrack_VideoPayloadSize(t), TRUE)
    ELSE AudioTrack_AudioPayloadSize(t)
         + EbmlElementSize("Audio", AudioTrack_AudioPayloadSize(t), TRUE)

\* VideoTrack::PayloadSize / AudioTrack::PayloadSize (the virtual PayloadSize).
Track_VirtualPayloadSize(t) == Track_PayloadSize(t) + Track_SettingsSize(t)

\* VideoTrack::Size / AudioTrack::Size (the virtual Size).
Track_VirtualSize(t) == Track_Size(t) + Track_SettingsSize(t)

\* Track::Write, the fields of the base class after the TrackEntry header.
Track_WriteFields(a, t) ==
    AssertWritten(
        WriteEbmlElementBytesIf(
            WriteEbmlElementBytesIf(
                WriteEbmlElementBytesIf(
                    WriteEbmlElementBytesIf(
                        WriteEbmlElement(
                            Emit(WriteEbmlElement(a, "TrackNumber", t.number),
                                 Chunk("TrackUID",
                                       EbmlElementSizeBytes("TrackUID", t.uid_size),
                                       <<>>)),
                            "TrackType", t.type),
                        t.codec_id >= 0, "CodecID", t.codec_id),
                    t.codec_private_length >= 0, "CodecPrivate",
                    t.codec_private_length),
                t.language >= 0, "Language", t.language),
            t.name >= 0, "Name", t.name),
        a.w.pos, Track_PayloadSize(t), "assert Track::Write size")

\* Track::Write: the TrackEntry header, then the fields of the base class.
Track_Write(x, t) ==
    Track_WriteFields(
        WriteEbmlMasterElement(x, "TrackEntry", Track_VirtualPayloadSize(t)), t)

\* VideoTrack::Write, the settings after the Video header.
VideoTrack_WriteSettings(a, t) ==
    AssertWritten(
        WriteEbmlElementFloatIf(
            WriteEbmlElementIf(
                WriteEbmlElementIf(
                    WriteEbmlElementIf(
                        WriteEbmlElement(
                            WriteEbmlElement(a, "PixelWidth", t.width),
                            "PixelHeight", t.height),
                        t.display_width > 0, "DisplayWidth", t.display_width),
                    t.display_height > 0, "DisplayHeight", t.display_height),
                t.stereo_mode > 0, "StereoMode", t.stereo_mode),
            t.frame_rate > 0, "FrameRate", t.frame_rate, 1),
        a.w.pos, VideoTrack_VideoPayloadSize(t), "assert VideoTrack::Write size")

\* VideoTrack::Write.
VideoTrack_Write(x, t) ==
    Then(Track_Write(x, t), LAMBDA b :
        VideoTrack_WriteSettings(
            WriteEbmlMasterElement(b, "Video", VideoTrack_VideoPayloadSize(t)),
            t))

\* AudioTrack::Write, the settings after the Audio header.
AudioTrack_WriteSettings(a, t) ==
    AssertWritten(
        WriteEbmlElementIf(
            WriteEbmlElement(
                WriteEbmlElementFloat(a, "SamplingFrequency", t.sample_rate, 1),
                "Channels", t.channels),
            t.bit_depth > 0, "BitDepth", t.bit_depth),
        a.w.pos, AudioTrack_AudioPayloadSize(t), "assert AudioTrack::Write size")

\* AudioTrack::Write.
AudioTrack_Write(x, t) ==
    Then(Track_Write(x, t), LAMBDA b :
        AudioTrack_WriteSettings(
            WriteEbmlMasterElement(b, "Audio", AudioTrack_AudioPayloadSize(t)),
            t))

\* The virtual Track::Write of a track entry.
Track_VirtualWrite(x, t) ==
    IF t.type = kVideo THEN VideoTrack_Write(x, t) ELSE AudioTrack_Write(x, t)

\* Tracks::Write, the loop over the entries; it ends at the first entry that
\* is not written.
RECURSIVE Tracks_WriteEntries(_, _, _)
Tracks_WriteEntries(x, entries, i) ==
    IF Stop(x) \/ i > Len(entries) THEN x
    ELSE Tracks_WriteEntries(Track_VirtualWrite(x, entries[i]), entries, i + 1)

\* Tracks::Write, the payload size: the sizes of the entries.
Tracks_PayloadSize(entries) ==
    SumSeq([i \in 1..Len(entries) |-> Track_VirtualSize(entries[i])])

\* Tracks::Write, the entries after the Tracks header.
Tracks_WriteFields(a) ==
    AssertWritten(Tracks_WriteEntries(a, a.seg.m_tracks, 1), a.w.pos,
                  Tracks_PayloadSize(a.seg.m_tracks), "assert Tracks::Write size")

\* Tracks::Write.
Tracks_Write(x) ==
    Then(x, LAMBDA y :
        Tracks_WriteFields(
            WriteEbmlMasterElement(y, "Tracks", Tracks_PayloadSize(y.seg.m_tracks))))

\* ----------------------------------------------------------------- cluster

\* Cluster::Cluster(timecode, writer).
NewCluster(timecode) ==
    [blocks_added |-> 0, timecode |-> timecode, finalized |-> FALSE,
     header_written |-> FALSE, payload_size |-> 0, size_position |-> -1]

\* Cluster::AddPayloadSize on cluster_list_[k].
Cluster_AddPayloadSize(x, k, size) ==
    IF Stop(x) THEN x
    ELSE [x EXCEPT !.seg.cluster_list[k].payload_size = @ + size]

\* Cluster::WriteClusterHeader of cluster_list_[k].
Cluster_WriteClusterHeader(x, k) ==
    Then(Cluster_AddPayloadSize(
             WriteEbmlElement(
                 WriteUIntSize(
                     Then(SerializeId(
                              AssertThat(x, ~x.seg.cluster_list[k].finalized,
                                         "assert !finalized_"),
                              "Cluster"),
                          LAMBDA a :
                              [a EXCEPT !.seg.cluster_list[k].size_position =
                                            a.w.pos]),
                     kUnknownSize),
                 "Timecode", x.seg.cluster_list[k].timecode),
             k, EbmlElementSize("Timecode", x.seg.cluster_list[k].timecode, FALSE)),
         LAMBDA c : [c EXCEPT !.seg.cluster_list[k].header_written = TRUE])

\* A cluster whose header is never written.
Cluster_EnsureHeaderNever(x, k) == x

\* Cluster::AddFrame, the header written before the first block.
Cluster_EnsureHeader(x, k) ==
    IF x.seg.cluster_list[k].header_written THEN x
    ELSE Cluster_WriteClusterHeader(x, k)

\* AddFrame that does not look at finalized_.
Cluster_AddFrameUnchecked(x, k, frame, length, track_number, timecode, is_key) ==
    IF Stop(x) THEN x
    ELSE Then(Cluster_AddPayloadSize(
                  WriteSimpleBlock(Cluster_EnsureHeader(x, k), frame, length,
                                   ToChar(track_number), timecode, is_key),
                  k, SimpleBlockSize(length)),
              LAMBDA b : [b EXCEPT !.seg.cluster_list[k].blocks_added = @ + 1])

\* Cluster::AddFrame on cluster_list_[k].
Cluster_AddFrame(x, k, frame, length, track_number, timecode, is_key) ==
    IF Stop(x) THEN x
    ELSE IF x.seg.cluster_list[k].finalized THEN Fail(x)
    ELSE Then(Cluster_AddPayloadSize(
                  WriteSimpleBlock(Cluster_EnsureHeader(x, k), frame, length,
                                   ToChar(track_number), timecode, is_key),
                  k, SimpleBlockSize(length)),
              LAMBDA b : [b EXCEPT !.seg.cluster_list[k].blocks_added = @ + 1])

\* A size patch that does not ask the writer whether it can seek.
Cluster_PatchSizeUnguarded(a, k) ==
    IF Stop(a) THEN a
    ELSE Seek(WriteUIntSize(Seek(a, a.seg.cluster_list[k].size_position),
                            a.seg.cluster_list[k].payload_size),
              a.w.pos)

\* Cluster::Finalize, the size written over the placeholder.
Cluster_PatchSize(a, k) ==
    IF Stop(a) \/ ~a.w.seekable THEN a
    ELSE Seek(WriteUIntSize(Seek(a, a.seg.cluster_list[k].size_position),
                            a.seg.cluster_list[k].payload_size),
              a.w.pos)

\* Cluster::Finalize on cluster_list_[k].
Cluster_Finalize(x, k) ==
    IF Stop(x) THEN x
    ELSE IF x.seg.cluster_list[k].finalized THEN Fail(x)
    ELSE Then(Cluster_PatchSize(
                  AssertThat(x, x.seg.cluster_list[k].size_position # -1,
                             "assert size_position_ != -1"), k),
              LAMBDA b : [b EXCEPT !.seg.cluster_list[k].finalized = TRUE])

\* -------------------------------------------------------------------- cues

\* A CueTrackPositions payload that counts a CueBlockNumber for every block.
CuePoint_TrackPositionsSizeAnyBlock(cue) ==
    EbmlElementSize("CueClusterPosition", cue.cluster_pos, FALSE)
    + EbmlElementSize("CueTrack", cue.track, FALSE)
    + (IF cue.output_block_number
       THEN EbmlElementSize("CueBlockNumber", cue.block_number, FALSE) ELSE 0)

\* The CueTrackPositions payload computed in CuePoint::Write and PayloadSize.
CuePoint_TrackPositionsSize(cue) ==
    EbmlElementSize("CueClusterPosition", cue.cluster_pos, FALSE)
    + EbmlElementSize("CueTrack", cue.track, FALSE)
    + (IF cue.output_block_number /\ cue.block_number > 1
       THEN EbmlElementSize("CueBlockNumber", cue.block_number, FALSE) ELSE 0)

\* CuePoint::PayloadSize.
CuePoint_PayloadSize(cue) ==
    EbmlElementSize("CueTime", cue.time, FALSE)
    + EbmlElementSize("CueTrackPositions", CuePoint_TrackPositionsSize(cue), TRUE)
    + CuePoint_TrackPositionsSize(cue)

\* CuePoint::Size.
CuePoint_Size(cue) ==
    EbmlElementSize("CuePoint", CuePoint_PayloadSize(cue), TRUE)
    + CuePoint_PayloadSize(cue)

\* CuePoint::Write, the fields after the CuePoint header.
CuePoint_WriteFields(a, cue) ==
    AssertWritten(
        WriteEbmlElementIf(
            WriteEbmlElement(
                WriteEbmlElement(
                    WriteEbmlMasterElement(
                        WriteEbmlElement(a, "CueTime", cue.time),
                        "CueTrackPositions", CuePoint_TrackPositionsSize(cue)),
                    "CueTrack", cue.track),
                "CueClusterPosition", cue.cluster_pos),
            cue.output_block_number /\ cue.block_number > 1,
            "CueBlockNumber", cue.block_number),
        a.w.pos, CuePoint_PayloadSize(cue), "assert CuePoint::Write size")

\* CuePoint::Write.
CuePoint_Write(x, cue) ==
    CuePoint_WriteFields(
        WriteEbmlMasterElement(
            AssertThat(AssertThat(x, cue.track > 0, "assert track_ > 0"),
                       cue.cluster_pos > 0, "assert cluster_pos_ > 0"),
            "CuePoint", CuePoint_PayloadSize(cue)),
        cue)

\* The array growth of Cues::AddCue, Segment::QueueFrame and Segment::AddFrame:
\* the capacity doubles (from 0 to 2) when the new size exceeds it.
GrownCapacity(capacity, new_size) ==
    IF new_size > capacity
    THEN (IF capacity = 0 THEN 2 ELSE capacity * 2)
    ELSE capacity

\* Cues::AddCue: the cue takes the Cues' output_block_number and is appended.
Cues_AddCue(x, cue) ==
    IF Stop(x) THEN x
    ELSE [x EXCEPT
            !.seg.cues.cue_entries_capacity =
                GrownCapacity(@, Len(x.seg.cues.cue_entries) + 1),
            !.seg.cues.cue_entries =
                Append(@, [cue EXCEPT !.output_block_number =
                                          x.seg.cues.output_block_number])]

\* Cues::Write, the loop over the cue points.
RECURSIVE Cues_WriteEntries(_, _, _)
Cues_WriteEntries(x, entries, i) ==
    IF Stop(x) \/ i > Len(entries) THEN x
    ELSE Cues_WriteEntries(CuePoint_Write(x, entries[i]), entries, i + 1)

\* Cues::Write, the payload size: the sizes of the cue points.
Cues_PayloadSize(entries) ==
    SumSeq([i \in 1..Len(entries) |-> CuePoint_Size(entries[i])])

\* Cues::Write, the cue points after the Cues header.
Cues_WriteFields(a) ==
    AssertWritten(Cues_WriteEntries(a, a.seg.cues.cue_entries, 1), a.w.pos,
                  Cues_PayloadSize(a.seg.cues.cue_entries),
                  "assert Cues::Write size")

\* Cues::Write.
Cues_Write(x) ==
    Then(x, LAMBDA y :
        Cues_WriteFields(
            WriteEbmlMasterElement(y, "Cues",
                                   Cues_PayloadSize(y.seg.cues.cue_entries))))

\* --------------------------------------------------------------- seek head

\* SeekHead::SeekHead.
NewSeekHead ==
    [start_pos |-> 0,
     seek_entry_id |-> [i \in 1..kSeekEntryCount |-> kNoId],
     seek_entry_pos |-> [i \in 1..kSeekEntryCount |-> 0]]

\* SeekHead::MaxEntrySize: a SeekID of 4 bytes and a SeekPosition of 8 bytes.
SeekHead_MaxEntrySize ==
    EbmlElementSize("Seek",
                    EbmlElementSizeBytes("SeekID", 4)
                    + EbmlElementSizeBytes("SeekPosition", 8), TRUE)
    + EbmlElementSizeBytes("SeekID", 4) + EbmlElementSizeBytes("SeekPosition", 8)

\* The bytes SeekHead::Write reserves, recomputed by SeekHead::Finalize.
SeekHead_TotalSize ==
    EbmlElementSize("SeekHead", kSeekEntryCount * SeekHead_MaxEntrySize, TRUE)
    + kSeekEntryCount * SeekHead_MaxEntrySize

\* SeekHead::Write.
SeekHead_Write(x) ==
    IF Stop(x) THEN x
    ELSE WriteVoidElement([x EXCEPT !.seg.seek_head.start_pos = x.w.pos],
                          SeekHead_TotalSize)

\* A slot search from the far end: the last slot whose id is 0.
SeekHead_LastFreeSlot(sh) ==
    IF \A i \in 1..kSeekEntryCount : sh.seek_entry_id[i] # kNoId THEN 0
    ELSE CHOOSE i \in 1..kSeekEntryCount :
            /\ sh.seek_entry_id[i] = kNoId
            /\ \A j \in (i + 1)..kSeekEntryCount : sh.seek_entry_id[j] # kNoId

\* SeekHead::AddSeekEntry, the first slot whose id is 0 (0 = none).
SeekHead_FreeSlot(sh) ==
    IF \A i \in 1..kSeekEntryCount : sh.seek_entry_id[i] # kNoId THEN 0
    ELSE CHOOSE i \in 1..kSeekEntryCount :
            /\ sh.seek_entry_id[i] = kNoId
            /\ \A j \in 1..(i - 1) : sh.seek_entry_id[j] # kNoId

\* SeekHead::AddSeekEntry.
SeekHead_AddSeekEntry(x, id, pos) ==
    IF Stop(x) THEN x
    ELSE IF SeekHead_FreeSlot(x.seg.seek_head) = 0 THEN Fail(x)
    ELSE [x EXCEPT
            !.seg.seek_head.seek_entry_id[SeekHead_FreeSlot(x.seg.seek_head)] = id,
            !.seg.seek_head.seek_entry_pos[SeekHead_FreeSlot(x.seg.seek_head)] = pos]

\* entry_size[i] of SeekHead::Finalize.
SeekHead_EntrySize(sh, i) ==
    EbmlElementSizeBytes("SeekID", IdSize(sh.seek_entry_id[i]))
    + EbmlElementSize("SeekPosition", sh.seek_entry_pos[i], FALSE)

\* payload_size of SeekHead::Finalize.
SeekHead_PayloadSize(sh) ==
    SumSeq([i \in 1..kSeekEntryCount |->
              IF sh.seek_entry_id[i] # kNoId
              THEN EbmlElementSize("Seek", SeekHead_EntrySize(sh, i), TRUE)
                   + SeekHead_EntrySize(sh, i)
              ELSE 0])

\* SeekHead::Finalize, one Seek entry: the slot, its id and its position.
SeekHead_WriteEntry(x, sh, i) ==
    WriteEbmlElement(
        Emit(WriteEbmlMasterElement(x, "Seek", SeekHead_EntrySize(sh, i)),
             Chunk("SeekID",
                   EbmlElementSizeBytes("SeekID", IdSize(sh.seek_entry_id[i])),
                   <<i>>)),
        "SeekPosition", sh.seek_entry_pos[i])

\* SeekHead::Finalize, the loop over the slots.
RECURSIVE SeekHead_WriteEntries(_, _, _)
SeekHead_WriteEntries(x, sh, i) ==
    IF Stop(x) \/ i > kSeekEntryCount THEN x
    ELSE IF sh.seek_entry_id[i] = kNoId THEN SeekHead_WriteEntries(x, sh, i + 1)
    ELSE SeekHead_WriteEntries(SeekHead_WriteEntry(x, sh, i), sh, i + 1)

\* SeekHead::Finalize, the Void element over the rest of the reserved bytes.
SeekHead_WriteRest(b, start_pos) ==
    IF Stop(b) THEN b
    ELSE WriteVoidElement(b, SeekHead_TotalSize - (b.w.pos - start_pos))

\* SeekHead::Finalize.
SeekHead_Finalize(x) ==
    IF Stop(x) \/ ~x.w.seekable THEN x
    ELSE IF SeekHead_PayloadSize(x.seg.seek_head) = 0 THEN x
    ELSE Seek(SeekHead_WriteRest(
                  SeekHead_WriteEntries(
                      WriteEbmlMasterElement(
                          Seek(x, x.seg.seek_head.start_pos), "SeekHead",
                          SeekHead_PayloadSize(x.seg.seek_head)),
                      x.seg.seek_head, 1),
                  x.seg.seek_head.start_pos),
              x.w.pos)

\* ------------------------------------------------------------ segment info

\* SegmentInfo::SegmentInfo and Init; duration_ is the fraction <<num, den>>.
NewSegmentInfo ==
    [timecode_scale |-> 1000000, duration |-> <<-1, 1>>, duration_pos |-> -1,
     muxing_app |-> kAppNameLen, writing_app |-> kAppNameLen]

\* duration_ > 0.0
DurationPositive(d) == d[1] > 0

\* size of SegmentInfo::Write.
SegmentInfo_PayloadSize(si) ==
    EbmlElementSize("TimecodeScale", si.timecode_scale, FALSE)
    + (IF DurationPositive(si.duration) THEN EbmlElementSizeFloat("Duration") ELSE 0)
    + EbmlElementSizeBytes("MuxingApp", si.muxing_app)
    + EbmlElementSizeBytes("WritingApp", si.writing_app)

\* SegmentInfo::Write, the Duration element and its saved position.
SegmentInfo_WriteDuration(b) ==
    IF Stop(b) \/ ~DurationPositive(b.seg.segment_info.duration) THEN b
    ELSE WriteEbmlElementFloat(
             [b EXCEPT !.seg.segment_info.duration_pos = b.w.pos], "Duration",
             b.seg.segment_info.duration[1], b.seg.segment_info.duration[2])

\* SegmentInfo::Write, the fields after the Info header.
SegmentInfo_WriteFields(a) ==
    AssertWritten(
        WriteEbmlElementBytes(
            WriteEbmlElementBytes(
                SegmentInfo_WriteDuration(
                    WriteEbmlElement(a, "TimecodeScale",
                                     a.seg.segment_info.timecode_scale)),
                "MuxingApp", a.seg.segment_info.muxing_app),
            "WritingApp", a.seg.segment_info.writing_app),
        a.w.pos, SegmentInfo_PayloadSize(a.seg.segment_info),
        "assert SegmentInfo::Write size")

\* SegmentInfo::Write.
SegmentInfo_Write(x) ==
    Then(x, LAMBDA y :
        SegmentInfo_WriteFields(
            WriteEbmlMasterElement(y, "Info",
                                   SegmentInfo_PayloadSize(y.seg.segment_info))))

\* SegmentInfo::Finalize.
SegmentInfo_Finalize(x) ==
    IF Stop(x) THEN x
    ELSE IF DurationPositive(x.seg.segment_info.duration) /\ x.w.seekable
    THEN Seek(WriteEbmlElementFloat(
                  Seek(AssertThat(x, x.seg.segment_info.duration_pos # -1,
                                  "assert duration_pos_ != -1"),
                       x.seg.segment_info.duration_pos),
                  "Duration", x.seg.segment_info.duration[1],
                  x.seg.segment_info.duration[2]),
              x.w.pos)
    ELSE x

\* ----------------------------------------------------------------- segment

\* Segment::Segment(writer).
NewSegment ==
    [cluster_list |-> <<>>, cluster_list_capacity |-> 0, has_video |-> FALSE,
     header_written |-> FALSE, new_cluster |-> TRUE, new_cuepoint |-> FALSE,
     size_position |-> 0, payload_pos |-> 0, mode |-> kFile,
     max_cluster_duration |-> 0, max_cluster_size |-> 0, last_timestamp |-> 0,
     output_cues |-> TRUE, cues_track |-> 0, frames |-> <<>>,
     frames_capacity |-> 0, m_tracks |-> <<>>,
     cues |-> [cue_entries |-> <<>>, cue_entries_capacity |-> 0,
               output_block_number |-> TRUE],
     seek_head |-> NewSeekHead, segment_info |-> NewSegmentInfo]

\* Frame::Frame, Frame::Init and the setters: an owned copy of the payload.
NewFrame(frame, length, track_number, timestamp, is_key) ==
    [frame |-> frame, length |-> length, track_number |-> track_number,
     timestamp |-> timestamp, is_key |-> is_key]

\* Segment::AddVideoTrack.
Segment_AddVideoTrack(seg, width, height) ==
    [seg EXCEPT !.m_tracks = Tracks_AddTrack(@, NewVideoTrack(width, height)),
                !.has_video = TRUE]

\* Segment::AddAudioTrack.
Segment_AddAudioTrack(seg, sample_rate, channels) ==
    [seg EXCEPT !.m_tracks = Tracks_AddTrack(@, NewAudioTrack(sample_rate, channels))]

\* The outcomes of the two allocations of a track add, new (std::nothrow) of
\* the track and of the grown entry array: both succeed, or one returns NULL.
Memory == {"ok", "no track", "no entries"}

\* return track->number() after a track was appended.
Segment_TrackAdded(seg) ==
    [seg |-> seg, number |-> seg.m_tracks[Len(seg.m_tracks)].number]

\* Segment::AddVideoTrack with the outcome of its allocations: the segment it
\* leaves and the number it returns.  When Tracks::AddTrack fails its result is
\* ignored: has_video_ is set and the track's number is still the 0 of
\* Track::Track.
Segment_AddVideoTrackIn(seg, width, height, memory) ==
    IF memory = "no track" THEN [seg |-> seg, number |-> 0]
    ELSE IF memory = "no entries"
    THEN [seg |-> [seg EXCEPT !.has_video = TRUE],
          number |-> NewVideoTrack(width, height).number]
    ELSE Segment_TrackAdded(Segment_AddVideoTrack(seg, width, height))

\* Segment::AddAudioTrack with the outcome of its allocations.
Segment_AddAudioTrackIn(seg, sample_rate, channels, memory) ==
    IF memory = "no track" THEN [seg |-> seg, number |-> 0]
    ELSE IF memory = "no entries"
    THEN [seg |-> seg, number |-> NewAudioTrack(sample_rate, channels).number]
    ELSE Segment_TrackAdded(Segment_AddAudioTrack(seg, sample_rate, channels))

\* Segment::OutputCues.
Segment_OutputCues(seg, output_cues) ==
    [seg EXCEPT !.output_cues = output_cues]

\* CuesTrack that takes any number as the cues track.
Segment_CuesTrackUnchecked(x, track) ==
    IF Stop(x) THEN x ELSE [x EXCEPT !.seg.cues_track = track]

\* Segment::CuesTrack.
Segment_CuesTrack(x, track) ==
    IF Stop(x) THEN x
    ELSE IF Tracks_GetTrackByNumber(x.seg.m_tracks, track) = 0 THEN Fail(x)
    ELSE [x EXCEPT !.seg.cues_track = track]

\* A seek entry that holds the offset from the start of the output.
Segment_AddSeekEntryAbsolute(x, id) ==
    IF Stop(x) THEN x
    ELSE SeekHead_AddSeekEntry(x, id, x.w.pos)

\* seek_head_.AddSeekEntry(id, writer_->Position() - payload_pos_).
Segment_AddSeekEntryHere(x, id) ==
    IF Stop(x) THEN x
    ELSE SeekHead_AddSeekEntry(x, id, x.w.pos - x.seg.payload_pos)

\* Segment::WriteSegmentHeader, file mode on a seekable writer: the duration
\* placeholder 1.0 and the bytes reserved for the SeekHead.
Segment_ReserveSeekHead(d) ==
    IF Stop(d) \/ ~(d.seg.mode = kFile /\ d.w.seekable) THEN d
    ELSE SeekHead_Write([d EXCEPT !.seg.segment_info.duration = <<1, 1>>])

\* Segment::WriteSegmentHeader.
Segment_WriteSegmentHeader(x) ==
    Then(Tracks_Write(
             Segment_AddSeekEntryHere(
                 SegmentInfo_Write(
                     Segment_AddSeekEntryHere(
                         Segment_ReserveSeekHead(
                             Then(WriteUIntSize(
                                      Then(SerializeId(x, "Segment"),
                                           LAMBDA a :
                                               [a EXCEPT !.seg.size_position =
                                                             a.w.pos]),
                                      kUnknownSize),
                                  LAMBDA c :
                                      [c EXCEPT !.seg.payload_pos = c.w.pos])),
                         "Info")),
                 "Tracks")),
         LAMBDA g : [g EXCEPT !.seg.header_written = TRUE])

\* A default cues track that is the first track, video or not.
Segment_DefaultCuesTrackFirst(seg) ==
    IF ~(seg.output_cues /\ seg.cues_track = 0) THEN seg.cues_track
    ELSE seg.m_tracks[1].number

\* Segment::AddFrame, the choice of the cues track on the first frame.
Segment_DefaultCuesTrack(seg) ==
    IF ~(seg.output_cues /\ seg.cues_track = 0) THEN seg.cues_track
    ELSE IF \E i \in 1..Len(seg.m_tracks) :
                Tracks_TrackIsVideo(seg.m_tracks, seg.m_tracks[i].number)
    THEN seg.m_tracks[CHOOSE i \in 1..Len(seg.m_tracks) :
             /\ Tracks_TrackIsVideo(seg.m_tracks, seg.m_tracks[i].number)
             /\ \A j \in 1..(i - 1) :
                   ~Tracks_TrackIsVideo(seg.m_tracks, seg.m_tracks[j].number)].number
    ELSE seg.m_tracks[1].number

\* Segment::AddFrame, the header written by the first call.
Segment_FirstFrameHeader(x) ==
    Then(Segment_AddSeekEntryHere(Segment_WriteSegmentHeader(x), "Cluster"),
         LAMBDA b : [b EXCEPT !.seg.cues_track = Segment_DefaultCuesTrack(b.seg)])

\* QueueFrame that stores the frame twice.
Segment_QueueFrameTwice(x, frame) ==
    IF Stop(x) THEN x
    ELSE [x EXCEPT
            !.seg.frames_capacity = GrownCapacity(@, Len(x.seg.frames) + 2),
            !.seg.frames = Append(Append(@, frame), frame)]

\* QueueFrame that puts the frame at the head of frames_.
Segment_QueueFrameFront(x, frame) ==
    IF Stop(x) THEN x
    ELSE [x EXCEPT
            !.seg.frames_capacity = IF @ = 0 THEN 2 ELSE @,
            !.seg.frames = <<frame>> \o @]

\* Segment::QueueFrame.
Segment_QueueFrame(x, frame) ==
    IF Stop(x) THEN x
    ELSE [x EXCEPT
            !.seg.frames_capacity = GrownCapacity(@, Len(x.seg.frames) + 1),
            !.seg.frames = Append(@, frame)]

\* Segment::AddCuePoint, the cue point of the next block of the last cluster.
Segment_NewCuePoint(a, timestamp) ==
    [time |-> timestamp \div a.seg.segment_info.timecode_scale,
     block_number |-> a.seg.cluster_list[Len(a.seg.cluster_list)].blocks_added + 1,
     cluster_pos |-> a.w.pos - a.seg.payload_pos,
     track |-> a.seg.cues_track,
     output_block_number |-> TRUE]

\* Segment::AddCuePoint.
Segment_AddCuePoint(x, timestamp) ==
    Then(Then(AssertThat(x, Len(x.seg.cluster_list) > 0,
                         "assert cluster_list_size_ > 0"),
              LAMBDA a : Cues_AddCue(a, Segment_NewCuePoint(a, timestamp))),
         LAMBDA b : [b EXCEPT !.seg.new_cuepoint = FALSE])

\* block_timecode: the frame's timecode relative to the last cluster's.
Segment_BlockTimecode(seg, timestamp) ==
    (timestamp \div seg.segment_info.timecode_scale)
    - seg.cluster_list[Len(seg.cluster_list)].timecode

\* A cue point for every frame of the cues track, requested or not.
Segment_CueBlockEvery(a, f) ==
    IF ~Stop(a) /\ a.seg.cues_track = f.track_number
    THEN Segment_AddCuePoint(a, f.timestamp) ELSE a

\* if (new_cuepoint_ && cues_track_ == track_number) AddCuePoint(timestamp).
Segment_CueBlock(a, f) ==
    IF ~Stop(a) /\ a.seg.new_cuepoint /\ a.seg.cues_track = f.track_number
    THEN Segment_AddCuePoint(a, f.timestamp) ELSE a

\* A frame written with last_timestamp_ set to its timestamp, whatever it was.
Segment_WriteFrameLastSeen(x, f) ==
    IF Stop(x) THEN x
    ELSE IF Len(x.seg.cluster_list) = 0 THEN Fault(x, "ub cluster_list_[-1]")
    ELSE Then(Cluster_AddFrame(
                  Segment_CueBlock(
                      AssertThat(x, Segment_BlockTimecode(x.seg, f.timestamp) >= 0,
                                 "assert block_timecode >= 0"), f),
                  Len(x.seg.cluster_list), f.frame, f.length, f.track_number,
                  ToShort(Segment_BlockTimecode(x.seg, f.timestamp)), f.is_key),
              LAMBDA c : [c EXCEPT !.seg.last_timestamp = f.timestamp])

\* One frame written into the last cluster: the block timecode and its assert,
\* the cue point, Cluster::AddFrame and last_timestamp_ (the same statements in
\* Segment::AddFrame, WriteFramesAll and WriteFramesLessThan).  With no cluster
\* the code dereferences cluster_list_[-1]: undefined behaviour.
Segment_WriteFrame(x, f) ==
    IF Stop(x) THEN x
    ELSE IF Len(x.seg.cluster_list) = 0 THEN Fault(x, "ub cluster_list_[-1]")
    ELSE Then(Cluster_AddFrame(
                  Segment_CueBlock(
                      AssertThat(x, Segment_BlockTimecode(x.seg, f.timestamp) >= 0,
                                 "assert block_timecode >= 0"), f),
                  Len(x.seg.cluster_list), f.frame, f.length, f.track_number,
                  ToShort(Segment_BlockTimecode(x.seg, f.timestamp)), f.is_key),
              LAMBDA c : [c EXCEPT !.seg.last_timestamp =
                                       IF f.timestamp > @ THEN f.timestamp ELSE @])

\* Segment::WriteFramesAll, the loop over frames_.
RECURSIVE Segment_WriteFramesAllLoop(_, _)
Segment_WriteFramesAllLoop(x, i) ==
    IF Stop(x) \/ i > Len(x.seg.frames) THEN x
    ELSE Segment_WriteFramesAllLoop(Segment_WriteFrame(x, x.seg.frames[i]), i + 1)

\* Cluster* cluster = cluster_list_[cluster_list_size_-1] in WriteFramesAll: with
\* cluster_list_ still NULL the read is undefined behaviour.
Segment_LastCluster(a) ==
    IF ~Stop(a) /\ Len(a.seg.cluster_list) = 0 /\ a.seg.cluster_list_capacity = 0
    THEN Fault(a, "ub cluster_list_[-1]") ELSE a

\* WriteFramesAll that drops the held frames instead of writing them.
Segment_WriteFramesAllDiscarding(x) ==
    IF Stop(x) THEN x ELSE [x EXCEPT !.seg.frames = <<>>]

\* Segment::WriteFramesAll.  frames_ is non-NULL once a frame was queued.
Segment_WriteFramesAll(x) ==
    IF Stop(x) \/ x.seg.frames_capacity = 0 THEN x
    ELSE Then(Segment_WriteFramesAllLoop(
                  Segment_LastCluster(
                      AssertThat(x, Len(x.seg.cluster_list) > 0,
                                 "assert cluster_list_size_ > 0")), 1),
              LAMBDA c : [c EXCEPT !.seg.frames = <<>>])

\* Segment::WriteFramesLessThan, the loop: frames_[i-1] is written while
\* frames_[i] exists and is not after timestamp (indices here are 1-based).
RECURSIVE Segment_WriteFramesLessThanLoop(_, _, _, _)
Segment_WriteFramesLessThanLoop(x, i, shift_left, timestamp) ==
    IF Stop(x) \/ i > Len(x.seg.frames) THEN [x |-> x, shift_left |-> shift_left]
    ELSE IF x.seg.frames[i].timestamp > timestamp
    THEN [x |-> x, shift_left |-> shift_left]
    ELSE Segment_WriteFramesLessThanLoop(
             Segment_WriteFrame(x, x.seg.frames[i - 1]),
             i + 1, shift_left + 1, timestamp)

\* A shift that empties frames_ once a frame was written.
Segment_ShiftFramesAll(r) ==
    IF Stop(r.x) \/ r.shift_left = 0 THEN r.x
    ELSE [r.x EXCEPT !.seg.frames = <<>>]

\* Segment::WriteFramesLessThan, the written frames removed from frames_.
Segment_ShiftFrames(r) ==
    IF Stop(r.x) \/ r.shift_left = 0 THEN r.x
    ELSE Then(AssertThat(r.x, r.shift_left < Len(r.x.seg.frames),
                         "assert shift_left < frames_size_"),
              LAMBDA b : [b EXCEPT !.seg.frames =
                                       SubSeq(@, r.shift_left + 1, Len(@))])

\* WriteFramesLessThan that writes no held frame into the old cluster.
Segment_WriteFramesNone(x, timestamp) == x

\* Segment::WriteFramesLessThan.
Segment_WriteFramesLessThan(x, timestamp) ==
    IF Stop(x) \/ Len(x.seg.frames) = 0 THEN x
    ELSE Segment_ShiftFrames(
             Segment_WriteFramesLessThanLoop(
                 AssertThat(x, Len(x.seg.cluster_list) > 0,
                            "assert cluster_list_size_ > 0"),
                 2, 0, timestamp))

\* A new-cluster check that ignores the frame: new_cluster_ stays as it is.
Segment_StartsNewClusterKept(seg, track_number, timestamp, is_key) ==
    seg.new_cluster

\* Segment::AddFrame, the check whether the frame starts a new cluster
\* (timestamp - cluster_ts is unsigned: it wraps to a huge value when negative).
Segment_StartsNewCluster(seg, track_number, timestamp, is_key) ==
    IF is_key /\ Tracks_TrackIsVideo(seg.m_tracks, track_number) THEN TRUE
    ELSE IF Len(seg.cluster_list) > 0
    THEN LET cluster == seg.cluster_list[Len(seg.cluster_list)]
             cluster_ts == cluster.timecode * seg.segment_info.timecode_scale
         IN  IF seg.max_cluster_duration > 0
                /\ (timestamp < cluster_ts
                    \/ timestamp - cluster_ts >= seg.max_cluster_duration)
             THEN TRUE
             ELSE IF seg.max_cluster_size > 0
                     /\ cluster.payload_size >= seg.max_cluster_size
             THEN TRUE
             ELSE seg.new_cluster
    ELSE seg.new_cluster

\* A cluster timecode taken from the frame alone.
Segment_NewClusterTimecodeOfFrame(seg, timestamp) ==
    timestamp \div seg.segment_info.timecode_scale

\* Segment::AddFrame, the timecode of a new cluster: the frame's, or the first
\* held audio frame's when that is earlier.
Segment_NewClusterTimecode(seg, timestamp) ==
    LET timecode == timestamp \div seg.segment_info.timecode_scale
        audio_timecode ==
            seg.frames[1].timestamp \div seg.segment_info.timecode_scale
    IN  IF Len(seg.frames) > 0 /\ audio_timecode < timecode
        THEN audio_timecode ELSE timecode

\* Segment::AddFrame, the cluster list grown for one more cluster.
Segment_GrowClusterList(x) ==
    [x EXCEPT !.seg.cluster_list_capacity =
                  GrownCapacity(@, Len(x.seg.cluster_list) + 1)]

\* Segment::AddFrame, the new Cluster appended to the list.
Segment_AppendCluster(b, timestamp) ==
    IF Stop(b) THEN b
    ELSE [b EXCEPT !.seg.cluster_list =
                       Append(@, NewCluster(
                                     Segment_NewClusterTimecode(b.seg, timestamp)))]

\* The old cluster finalized in every mode.
Segment_FinalizeOldClusterAnyMode(c) ==
    IF ~Stop(c) /\ Len(c.seg.cluster_list) > 1
    THEN Cluster_Finalize(c, Len(c.seg.cluster_list) - 1) ELSE c

\* Segment::AddFrame, file mode: the size of the old cluster is written.
Segment_FinalizeOldCluster(c) ==
    IF ~Stop(c) /\ c.seg.mode = kFile /\ Len(c.seg.cluster_list) > 1
    THEN Cluster_Finalize(c, Len(c.seg.cluster_list) - 1) ELSE c

\* A cue point requested for the new cluster in every mode.
Segment_RequestCuePointAnyMode(d) ==
    IF ~Stop(d) /\ d.seg.output_cues
    THEN [d EXCEPT !.seg.new_cuepoint = TRUE] ELSE d

\* Segment::AddFrame, file mode: the new cluster gets a cue point.
Segment_RequestCuePoint(d) ==
    IF ~Stop(d) /\ d.seg.mode = kFile /\ d.seg.output_cues
    THEN [d EXCEPT !.seg.new_cuepoint = TRUE] ELSE d

\* Segment::AddFrame, the new cluster: the list grows, the held frames before
\* the timestamp go to the old cluster, the old cluster is finalized.
Segment_OpenCluster(x, timestamp) ==
    IF Stop(x) THEN x
    ELSE Then(Segment_RequestCuePoint(
                  Segment_FinalizeOldCluster(
                      Segment_AppendCluster(
                          Segment_WriteFramesLessThan(Segment_GrowClusterList(x),
                                                      timestamp),
                          timestamp))),
              LAMBDA e : [e EXCEPT !.seg.new_cluster = FALSE])

\* Segment::AddFrame, new_cluster_ after the check for a new cluster.
Segment_DecideNewCluster(a, f) ==
    [a EXCEPT !.seg.new_cluster =
                  Segment_StartsNewCluster(a.seg, f.track_number, f.timestamp,
                                           f.is_key)]

\* if (new_cluster_) { ... }
Segment_OpenClusterIfNew(b, timestamp) ==
    IF b.seg.new_cluster THEN Segment_OpenCluster(b, timestamp) ELSE b

\* Segment::AddFrame after the header: an audio frame of a segment with video
\* is held; any other frame is written, after the held frames.
Segment_MuxFrame(a, f) ==
    IF Stop(a) THEN a
    ELSE IF a.seg.has_video /\ Tracks_TrackIsAudio(a.seg.m_tracks, f.track_number)
    THEN Segment_QueueFrame(a, f)
    ELSE Segment_WriteFrame(
             Then(Segment_WriteFramesAll(
                      Segment_OpenClusterIfNew(Segment_DecideNewCluster(a, f),
                                               f.timestamp)),
                  LAMBDA d : AssertThat(d, Len(d.seg.cluster_list) > 0,
                                        "assert cluster_list_size_ > 0")),
             f)

\* if (!header_written_) { ... }
Segment_EnsureHeader(x) ==
    IF x.seg.header_written THEN x ELSE Segment_FirstFrameHeader(x)

\* Segment::AddFrame.
Segment_AddFrame(x, frame, length, track_number, timestamp, is_key) ==
    Segment_MuxFrame(Segment_EnsureHeader(x),
                     NewFrame(frame, length, track_number, timestamp, is_key))

\* Segment::Finalize, the size of the last cluster is written.
Segment_FinalizeLastCluster(a) ==
    IF ~Stop(a) /\ Len(a.seg.cluster_list) > 0
    THEN Cluster_Finalize(a, Len(a.seg.cluster_list)) ELSE a

\* Segment::Finalize, duration = last_timestamp_ / timecode_scale.
Segment_SetDuration(b) ==
    IF Stop(b) THEN b
    ELSE [b EXCEPT !.seg.segment_info.duration =
                       <<b.seg.last_timestamp, b.seg.segment_info.timecode_scale>>]

\* Segment::Finalize, the Segment size written over the placeholder.
Segment_WriteSegmentSize(b, pos) ==
    IF Stop(b) THEN b
    ELSE Seek(WriteUIntSize(Seek(b, b.seg.size_position),
                            pos - b.seg.size_position - 8), pos)

\* Segment::Finalize, the back-patch of the Segment size.
Segment_PatchSize(x) ==
    IF Stop(x) \/ ~x.w.seekable THEN x
    ELSE Segment_WriteSegmentSize(
             AssertThat(AssertThat(x, x.seg.size_position # -1,
                                   "assert size_position_ != -1"),
                        x.w.pos - x.seg.size_position - 8 > 0,
                        "assert segment_size > 0"),
             x.w.pos)

\* Segment::Finalize in file mode, after the held frames were written.
Segment_FinalizeFile(a) ==
    Segment_PatchSize(
        SeekHead_Finalize(
            Cues_Write(
                Segment_AddSeekEntryHere(
                    SegmentInfo_Finalize(
                        Segment_SetDuration(Segment_FinalizeLastCluster(a))),
                    "Cues"))))

\* Segment::Finalize.
Segment_Finalize(x) ==
    Then(Segment_WriteFramesAll(x),
         LAMBDA a : IF a.seg.mode # kFile THEN a ELSE Segment_FinalizeFile(a))

\* ------------------------------------------------------------- EBML header

\* size of WriteEbmlHeader.
EbmlHeaderSize ==
    EbmlElementSize("EBMLVersion", 1, FALSE)
    + EbmlElementSize("EBMLReadVersion", 1, FALSE)
    + EbmlElementSize("EBMLMaxIDLength", 4, FALSE)
    + EbmlElementSize("EBMLMaxSizeLength", 8, FALSE)
    + EbmlElementSizeBytes("DocType", 4)
    + EbmlElementSize("DocTypeVersion", 2, FALSE)
    + EbmlElementSize("DocTypeReadVersion", 2, FALSE)

\* WriteEbmlHeader.
WriteEbmlHeader(x) ==
    WriteEbmlElement(
        WriteEbmlElement(
            WriteEbmlElementBytes(
                WriteEbmlElement(
                    WriteEbmlElement(
                        WriteEbmlElement(
                            WriteEbmlElement(
                                WriteEbmlMasterElement(x, "EBML", EbmlHeaderSize),
                                "EBMLVersion", 1),
                            "EBMLReadVersion", 1),
                        "EBMLMaxIDLength", 4),
                    "EBMLMaxSizeLength", 8),
                "DocType", 4),
            "DocTypeVersion", 2),
        "DocTypeReadVersion", 2)

\* ------------------------------------------------------------------- state

VARIABLES
    segment,    \* the Segment object
    writer,     \* the IMkvWriter the segment writes to
    proc,       \* the process: why it stopped, and whether an assert was skipped
    history     \* the AddFrame and Finalize calls made so far, with their results

vars == <<segment, writer, proc, history>>

\* An IMkvWriter at offset 0 of an empty output.
NewWriter(seekable) ==
    [pos |-> 0, end |-> 0, file |-> <<>>, seekable |-> seekable, writes |-> 0,
     seeks |-> 0, fail_at |-> 0, failures |-> 0]

\* The execution record of a call that starts in the current state.
Exec(ndebug) ==
    [seg |-> segment, w |-> writer, ret |-> TRUE, fault |-> proc.fault,
     ndebug |-> ndebug, skipped |-> proc.skipped]

\* A build compiles assert() out or not; once an assert was skipped the build
\* is known to be an NDEBUG build.
Builds == IF proc.skipped THEN {TRUE} ELSE BOOLEAN

NoFrame == NewFrame(0, 0, 0, 0, FALSE)

AddFrameCalls == SelectSeq(history, LAMBDA c : c.op = "AddFrame")

FinalizeCalls == SelectSeq(history, LAMBDA c : c.op = "Finalize")

\* The client goes on only while the process runs and no call has failed.
Running ==
    /\ proc.fault = "none"
    /\ \A i \in 1..Len(history) : history[i].ret

\* The state after a call: the objects, the process and the call's record.
Return(x, op, f) ==
    /\ segment' = x.seg
    /\ writer' = x.w
    /\ proc' = [fault |-> x.fault, skipped |-> x.skipped]
    /\ history' = Append(history,
                         [op |-> op, f |-> f, ret |-> x.ret /\ x.fault = "none",
                          writes |-> x.w.writes - writer.writes,
                          seeks |-> x.w.seeks - writer.seeks])

\* The tracks the client registers: "V" by AddVideoTrack, "A" by AddAudioTrack.
RECURSIVE Segment_AddTracks(_, _)
Segment_AddTracks(seg, layout) ==
    IF layout = <<>> THEN seg
    ELSE Segment_AddTracks(
             IF Head(layout) = "V" THEN Segment_AddVideoTrack(seg, 640, 480)
             ELSE Segment_AddAudioTrack(seg, 44100, 2),
             Tail(layout))

\* The segment when streaming starts: constructed, its tracks registered, and
\* mode, max_cluster_duration and timecode_scale set.
Configured(layout, mode, duration, scale) ==
    [Segment_AddTracks(NewSegment, layout) EXCEPT
        !.mode = mode,
        !.max_cluster_duration = duration,
        !.segment_info.timecode_scale = scale]

\* The client writes the EBML header, constructs the Segment on the writer and
\* sets it up.
InitOf(layouts, modes, seekables, durations, scales) ==
    /\ \E seekable \in seekables :
          writer = WriteEbmlHeader([w |-> NewWriter(seekable), ret |-> TRUE,
                                    fault |-> "none"]).w
    /\ \E layout \in layouts, mode \in modes, duration \in durations,
          scale \in scales :
          segment = Configured(layout, mode, duration, scale)
    /\ proc = [fault |-> "none", skipped |-> FALSE]
    /\ history = <<>>

\* ----------------------------------------------------------------- actions

\* Frames are presented in non-decreasing timestamp order per track.
InOrder(track_number, timestamp) ==
    \A i \in 1..Len(history) :
        (history[i].op = "AddFrame" /\ history[i].f.track_number = track_number)
            => history[i].f.timestamp <= timestamp

\* The calls the client makes after the first Segment::Finalize.
CallsAfterFinalize ==
    IF FinalizeCalls = <<>> THEN 0
    ELSE Len(history)
         - (CHOOSE i \in 1..Len(history) :
               /\ history[i].op = "Finalize"
               /\ \A j \in 1..(i - 1) : history[j].op # "Finalize")

\* Segment::AddFrame of a frame on a registered track; the payload of the n-th
\* call is identified by n.
AddFrameOf(max_frames, timestamps, audio_keys, after) ==
    /\ Running
    /\ Len(AddFrameCalls) < max_frames
    /\ FinalizeCalls # <<>> => CallsAfterFinalize < after
    /\ \E track_number \in 1..Len(segment.m_tracks), timestamp \in timestamps,
          length \in FrameLengths, ndebug \in Builds :
          \E is_key \in (IF Tracks_TrackIsAudio(segment.m_tracks, track_number)
                         THEN audio_keys ELSE BOOLEAN) :
             /\ InOrder(track_number, timestamp)
             /\ Return(Segment_AddFrame(Exec(ndebug), Len(AddFrameCalls) + 1,
                                        length, track_number, timestamp, is_key),
                       "AddFrame",
                       NewFrame(Len(AddFrameCalls) + 1, length, track_number,
                                timestamp, is_key))

\* Segment::Finalize.
FinalizeOf(after) ==
    /\ Running
    /\ FinalizeCalls # <<>> => CallsAfterFinalize < after
    /\ \E ndebug \in Builds :
          Return(Segment_Finalize(Exec(ndebug)), "Finalize", NoFrame)

\* ---------------------------------------------------------- specifications

\* Every mode and writer, with and without a cluster duration limit; the
\* client may make calls after the first Finalize.
Init ==
    InitOf({<<"V">>, <<"A">>, <<"V", "A">>}, {kFile, kLive}, BOOLEAN,
           ClusterDurations, {NewSegmentInfo.timecode_scale})

AddFrame ==
    AddFrameOf(MaxFrames, Timestamps \ {33000000}, BOOLEAN, MaxAfterFinalize)

Finalize == FinalizeOf(MaxAfterFinalize)

Next ==
    \/ AddFrame
    \/ Finalize

Spec == Init /\ [][Next]_vars

\* One video and one audio track into a seekable file, four timestamps, up to
\* MaxFramesAV frames and a closing Finalize: the interleavings of held audio
\* with cluster boundaries.
InitAV ==
    InitOf({<<"V", "A">>}, {kFile}, {TRUE}, {0},
           {NewSegmentInfo.timecode_scale})

AddFrameAV == AddFrameOf(MaxFramesAV, Timestamps, {TRUE}, 0)

FinalizeAV == FinalizeOf(0)

NextAV ==
    \/ AddFrameAV
    \/ FinalizeAV

SpecAV == InitAV /\ [][NextAV]_vars

\* A video track with every timecode scale: block timecodes that leave the
\* 16-bit range.
InitTicks ==
    InitOf({<<"V">>}, {kFile, kLive}, BOOLEAN, {0}, TimecodeScales)

AddFrameTicks ==
    AddFrameOf(MaxFrames, {0, 10000000, 33000000}, BOOLEAN, MaxAfterFinalize)

FinalizeTicks == FinalizeOf(MaxAfterFinalize)

NextTicks ==
    \/ AddFrameTicks
    \/ FinalizeTicks

SpecTicks == InitTicks /\ [][NextTicks]_vars

\* Live mode alone, with and without OutputCues: the cases in which nothing
\* may be patched and no cue point may be made.
InitLive ==
    /\ \E seekable \in BOOLEAN :
          writer = WriteEbmlHeader([w |-> NewWriter(seekable), ret |-> TRUE,
                                    fault |-> "none"]).w
    /\ \E layout \in {<<"V">>, <<"A">>, <<"V", "A">>},
          duration \in ClusterDurations, output_cues \in BOOLEAN :
          segment = Segment_OutputCues(
                        Configured(layout, kLive, duration,
                                   NewSegmentInfo.timecode_scale),
                        output_cues)
    /\ proc = [fault |-> "none", skipped |-> FALSE]
    /\ history = <<>>

SpecLive == InitLive /\ [][Next]_vars

\* A writer that fails once, at any one of the writes and seeks that follow
\* the EBML header; video and audio, both modes, with the cluster duration
\* limit, so that clusters are closed inside AddFrame as well.
InitFailing ==
    /\ \E seekable \in BOOLEAN, n \in 1..MaxWriterCalls :
          writer = WriterFailingAt(
                       WriteEbmlHeader([w |-> NewWriter(seekable), ret |-> TRUE,
                                        fault |-> "none"]).w, n)
    /\ \E mode \in {kFile, kLive} :
          segment = Configured(<<"V", "A">>, mode, 15000000,
                               NewSegmentInfo.timecode_scale)
    /\ proc = [fault |-> "none", skipped |-> FALSE]
    /\ history = <<>>

\* Up to MaxFrames frames at two timestamps and a closing Finalize.
AddFrameShort == AddFrameOf(MaxFrames, {0, 20000000}, {TRUE}, 0)

NextShort ==
    \/ AddFrameShort
    \/ FinalizeAV

SpecFailing == InitFailing /\ [][NextShort]_vars

\* Segment::WriteFramesLessThan on its own, with any limit, on a segment as
\* AddFrame calls have left it; nothing is called after it.
WriteFramesLessThan ==
    /\ Running
    /\ FinalizeCalls = <<>>
    /\ \A i \in 1..Len(history) : history[i].op = "AddFrame"
    /\ \E timestamp \in Timestamps, ndebug \in Builds :
          Return(Segment_WriteFramesLessThan(Exec(ndebug), timestamp),
                 "WriteFramesLessThan", NewFrame(0, 0, 0, timestamp, FALSE))

NextFlush ==
    \/ AddFrameAV /\ \A i \in 1..Len(history) : history[i].op = "AddFrame"
    \/ WriteFramesLessThan

SpecFlush == InitAV /\ [][NextFlush]_vars

\* File mode with every choice of the cues track before the first frame: none
\* (0) or CuesTrack(1) or CuesTrack(2), cue output on or off, with the video
\* track before or after the audio track, two video or two audio tracks.
InitCues ==
    /\ writer = WriteEbmlHeader([w |-> NewWriter(TRUE), ret |-> TRUE,
                                 fault |-> "none"]).w
    /\ \E layout \in {<<"V", "A">>, <<"A", "V">>, <<"V", "V">>, <<"A", "A">>},
          output_cues \in BOOLEAN, track \in 0..2 :
          segment = Segment_CuesTrack(
                        [seg |-> Segment_OutputCues(
                                     Configured(layout, kFile, 0,
                                                NewSegmentInfo.timecode_scale),
                                     output_cues),
                         ret |-> track # 0, fault |-> "none"], track).seg
    /\ proc = [fault |-> "none", skipped |-> FALSE]
    /\ history = <<>>

SpecCues == InitCues /\ [][NextShort]_vars

\* Two video tracks, whose frames are in order per track and interleave
\* freely, with and without the cluster duration limit.
InitTwoVideo ==
    InitOf({<<"V", "V">>}, {kFile, kLive}, BOOLEAN, ClusterDurations,
           {NewSegmentInfo.timecode_scale})

SpecTwoVideo == InitTwoVideo /\ [][Next]_vars

\* File mode, video and audio, with every combination of the optional fields
\* of the tracks, the Info duration and the cue block numbers.
InitOptions ==
    /\ writer = WriteEbmlHeader([w |-> NewWriter(TRUE), ret |-> TRUE,
                                 fault |-> "none"]).w
    /\ \E o \in TrackOptions, output_block_number \in BOOLEAN,
          duration \in InfoDurations :
          segment = [Configured(<<"V", "A">>, kFile, 0,
                                NewSegmentInfo.timecode_scale) EXCEPT
                        !.m_tracks = [i \in DOMAIN @ |-> Track_SetOptions(@[i], o)],
                        !.cues.output_block_number = output_block_number,
                        !.segment_info.duration = duration]
    /\ proc = [fault |-> "none", skipped |-> FALSE]
    /\ history = <<>>

AddFrameOptions == AddFrameOf(MaxFramesOptions, {0}, {TRUE}, 0)

NextOptions ==
    \/ AddFrameOptions
    \/ FinalizeAV

SpecOptions == InitOptions /\ [][NextOptions]_vars

\* The state after a call that is no AddFrame or Finalize: the objects, the
\* process and the call's record with its argument and the value it returned.
ReturnOf(x, op, arg, value) ==
    /\ segment' = x.seg
    /\ writer' = x.w
    /\ proc' = [fault |-> x.fault, skipped |-> x.skipped]
    /\ history' = Append(history,
                         [op |-> op, arg |-> arg,
                          ret |-> x.ret /\ x.fault = "none", value |-> value])

\* The state after a track add that left the segment r.seg and returned
\* r.number; 0 is the failure value.
ReturnTrack(r, op) ==
    ReturnOf([Exec(FALSE) EXCEPT !.seg = r.seg, !.ret = r.number # 0], op, 0,
             r.number)

\* The client sets a segment up: it adds tracks and chooses the cues track,
\* in any order, whatever the calls return.
InitSetup ==
    InitOf({<<>>}, {kFile}, {TRUE}, {0}, {NewSegmentInfo.timecode_scale})

AddVideoTrack ==
    /\ Len(history) < MaxSetupCalls
    /\ \E memory \in Memory :
          ReturnTrack(Segment_AddVideoTrackIn(segment, 640, 480, memory),
                      "AddVideoTrack")

AddAudioTrack ==
    /\ Len(history) < MaxSetupCalls
    /\ \E memory \in Memory :
          ReturnTrack(Segment_AddAudioTrackIn(segment, 44100, 2, memory),
                      "AddAudioTrack")

CuesTrack ==
    /\ Len(history) < MaxSetupCalls
    /\ \E track \in 0..MaxSetupCalls :
          ReturnOf(Segment_CuesTrack(Exec(FALSE), track), "CuesTrack", track, 0)

NextSetup ==
    \/ AddVideoTrack
    \/ AddAudioTrack
    \/ CuesTrack

SpecSetup == InitSetup /\ [][NextSetup]_vars

\* One Cluster object on a writer, driven through its own interface: the
\* object is cluster_list[1] of a segment that is not used otherwise.
ClusterTimecodes == {0, 5}

InitCluster ==
    /\ \E seekable \in BOOLEAN : writer = NewWriter(seekable)
    /\ \E timecode \in ClusterTimecodes :
          segment = [NewSegment EXCEPT !.cluster_list = <<NewCluster(timecode)>>]
    /\ proc = [fault |-> "none", skipped |-> FALSE]
    /\ history = <<>>

ClusterAddFrame ==
    /\ proc.fault = "none"
    /\ Len(history) < MaxClusterCalls
    /\ \E track_number \in {kVideo, kAudio}, timecode \in ClusterTimecodes,
          length \in FrameLengths, is_key \in BOOLEAN, ndebug \in Builds :
          Return(Cluster_AddFrame(Exec(ndebug), 1, Len(history) + 1, length,
                                  track_number, timecode, is_key),
                 "AddFrame",
                 NewFrame(Len(history) + 1, length, track_number, timecode,
                          is_key))

ClusterFinalize ==
    /\ proc.fault = "none"
    /\ Len(history) < MaxClusterCalls
    /\ \E ndebug \in Builds :
          Return(Cluster_Finalize(Exec(ndebug), 1), "Finalize", NoFrame)

NextCluster ==
    \/ ClusterAddFrame
    \/ ClusterFinalize

SpecCluster == InitCluster /\ [][NextCluster]_vars

\* One SeekHead object, the seek_head of a new segment that is not used
\* otherwise, given entries until it is full and once more.
SeekIds == {kNoId, "Info", "Cues"}

SeekPositions == {0, 40}

AddSeekEntry ==
    /\ Len(history) < MaxSeekCalls
    /\ \E id \in SeekIds, pos \in SeekPositions :
          ReturnOf(SeekHead_AddSeekEntry(Exec(FALSE), id, pos), "AddSeekEntry",
                   <<id, pos>>, 0)

NextSeekHead ==
    \/ AddSeekEntry

SpecSeekHead == InitSetup /\ [][NextSeekHead]_vars

\* One SeekHead object from SeekHead::Write to SeekHead::Finalize, with
\* positions of 1, 3 and 8 bytes (-1 is 0xFFFFFFFFFFFFFFFF).
WidePositions == {0, 70000, -1}

SeekHeadWrite ==
    /\ history = <<>>
    /\ ReturnOf(SeekHead_Write(Exec(FALSE)), "Write", <<>>, 0)

AddSeekEntryWide ==
    /\ history # <<>>
    /\ Len(history) <= kSeekEntryCount
    /\ history[Len(history)].op # "Finalize"
    /\ \E id \in SeekIds \ {kNoId}, pos \in WidePositions :
          ReturnOf(SeekHead_AddSeekEntry(Exec(FALSE), id, pos), "AddSeekEntry",
                   <<id, pos>>, 0)

SeekHeadFinalize ==
    /\ history # <<>>
    /\ history[Len(history)].op # "Finalize"
    /\ ReturnOf(SeekHead_Finalize(Exec(FALSE)), "Finalize", <<>>, 0)

NextSeekHeadFinalize ==
    \/ SeekHeadWrite
    \/ AddSeekEntryWide
    \/ SeekHeadFinalize

SpecSeekHeadFinalize == InitSetup /\ [][NextSeekHeadFinalize]_vars

\* ------------------------------------------------------------ observations

\* Offsets of the fields of one kind in the output.
FieldsOf(kind) == {p \in DOMAIN writer.file : writer.file[p].kind = kind}

\* A finite set of offsets in increasing order.
RECURSIVE Ascending(_)
Ascending(S) ==
    IF S = {} THEN <<>>
    ELSE LET m == CHOOSE a \in S : \A b \in S : a <= b
         IN  <<m>> \o Ascending(S \ {m})

\* The SimpleBlock at offset p.
BlockAt(p) ==
    LET v == writer.file[p].val
    IN  [track_number |-> v[1], timecode |-> v[2], is_key |-> v[3] = 128,
         frame |-> v[4], length |-> v[5]]

\* The Cluster id that precedes offset p most closely.
ClusterOf(p) ==
    CHOOSE c \in FieldsOf("Cluster") :
        c < p /\ \A d \in FieldsOf("Cluster") : d < p => d <= c

\* The offsets of the blocks of the cluster whose id is at c, in file order.
BlocksOfCluster(c) ==
    Ascending({p \in FieldsOf("SimpleBlock") : ClusterOf(p) = c})

\* The base timecode of the cluster at c: the Timecode element after the id
\* and the 8-byte size.
ClusterTimecode(c) == writer.file[c + 12].val[1]

\* The frame the client passed in its n-th AddFrame call.
Passed(n) == AddFrameCalls[n].f

\* The timestamp of the block at p in timecode ticks.
ScaledTimestamp(p) ==
    Passed(BlockAt(p).frame).timestamp \div segment.segment_info.timecode_scale

IsVideoBlock(p) == Tracks_TrackIsVideo(segment.m_tracks, BlockAt(p).track_number)

IsAudioBlock(p) == Tracks_TrackIsAudio(segment.m_tracks, BlockAt(p).track_number)

\* One past the last byte of the output.
EndOfOutput == writer.end

\* The run is AddFrame calls that all returned true and then one Finalize
\* that returned true.
FramesThenFinalize ==
    /\ history # <<>>
    /\ \A i \in 1..Len(history) :
          /\ history[i].ret
          /\ history[i].op = (IF i = Len(history) THEN "Finalize" ELSE "AddFrame")

Blocks == FieldsOf("SimpleBlock")

Clusters == FieldsOf("Cluster")

\* The first Cluster id of the output.
IsFirstCluster(c) == \A d \in Clusters : c <= d

\* The block at p is the first video block of its cluster.
IsFirstVideoBlock(p) ==
    /\ IsVideoBlock(p)
    /\ \A q \in Blocks :
          (ClusterOf(q) = ClusterOf(p) /\ IsVideoBlock(q)) => p <= q

\* The first Segment::Finalize call has returned true and was the last call.
JustFinalized ==
    /\ Len(FinalizeCalls) = 1
    /\ history[Len(history)].op = "Finalize"
    /\ history[Len(history)].ret

\* ------------------------------------------------------------------ claims

\* C1: after Segment::Finalize has returned, every later Segment::AddFrame
\* returns failure and writes no bytes, in file mode and in live mode.
C1_AddFrameAfterFinalizeFails ==
    \A i \in 1..Len(history) : \A j \in (i + 1)..Len(history) :
        (history[i].op = "Finalize" /\ history[j].op = "AddFrame")
            => (~history[j].ret /\ history[j].writes = 0)

\* C2: when every AddFrame returned true and the Finalize after them returned
\* true, the SimpleBlocks of the output correspond one-to-one with the frames
\* passed: each frame has exactly one block with its payload, track number and
\* key flag, there is no other block, and the hold queue is empty.
C2_BlocksMatchFrames ==
    FramesThenFinalize =>
        /\ segment.frames = <<>>
        /\ Cardinality(Blocks) = Len(AddFrameCalls)
        /\ \A n \in 1..Len(AddFrameCalls) :
              \E p \in Blocks :
                  /\ BlockAt(p).frame = n
                  /\ BlockAt(p).length = Passed(n).length
                  /\ BlockAt(p).track_number = Passed(n).track_number
                  /\ BlockAt(p).is_key = Passed(n).is_key

\* C2, its case: a video and an audio track, three frames of which one is
\* audio, all accepted, and Finalize returned true.
C2_Witness ==
    /\ FramesThenFinalize
    /\ segment.has_video
    /\ Len(AddFrameCalls) = 3
    /\ \E p \in Blocks : IsAudioBlock(p)

\* C3 as stated: with a video track, the first SimpleBlock of every cluster is
\* a video block with the key flag.
C3_ClustersStartWithVideoKey ==
    segment.has_video =>
        \A c \in Clusters :
            BlocksOfCluster(c) # <<>> =>
                /\ IsVideoBlock(BlocksOfCluster(c)[1])
                /\ BlockAt(BlocksOfCluster(c)[1]).is_key

\* C3 amended: with a video track, a video key frame is always the first video
\* block of its cluster and only audio blocks precede it there; with
\* max_cluster_duration = 0 and max_cluster_size = 0 the first video block of
\* every cluster after the first is a key frame.
C3_KeyFrameIsFirstVideoOfCluster ==
    segment.has_video =>
        \A p \in Blocks :
            /\ (IsVideoBlock(p) /\ BlockAt(p).is_key) =>
                   \A q \in Blocks :
                       (ClusterOf(q) = ClusterOf(p) /\ q < p) => IsAudioBlock(q)
            /\ (/\ segment.max_cluster_duration = 0
                /\ segment.max_cluster_size = 0
                /\ IsFirstVideoBlock(p)
                /\ ~IsFirstCluster(ClusterOf(p))) => BlockAt(p).is_key

\* C3, its case: a cluster after the first starts with a held audio block and
\* its first video block is a key frame.
C3_Witness ==
    /\ segment.has_video
    /\ \E p \in Blocks :
          /\ IsFirstVideoBlock(p) /\ BlockAt(p).is_key
          /\ ~IsFirstCluster(ClusterOf(p))
          /\ IsAudioBlock(BlocksOfCluster(ClusterOf(p))[1])

\* C4: for every cue point, payload start + cluster_pos is the offset of the
\* Cluster id of the cluster that holds the cued block.
C4_CuesPointAtClusterIds ==
    \A i \in 1..Len(segment.cues.cue_entries) :
        (segment.payload_pos + segment.cues.cue_entries[i].cluster_pos)
            \in Clusters

\* C5: the 16-bit relative timecode of every SimpleBlock equals the block's
\* scaled timestamp minus the base timecode of its cluster, without truncation.
C5_RelativeTimecodeNotTruncated ==
    \A p \in Blocks :
        BlockAt(p).timecode = ScaledTimestamp(p) - ClusterTimecode(ClusterOf(p))

\* C6: the base timecode of a cluster is at most the scaled timestamp of every
\* block in it, and the asserts block_timecode >= 0 never fail.
C6_BaseNotAfterBlocks ==
    /\ proc.fault # "assert block_timecode >= 0"
    /\ \A p \in Blocks : ClusterTimecode(ClusterOf(p)) <= ScaledTimestamp(p)

\* C7: audio frames are written in the order in which they were passed to
\* AddFrame: of two audio blocks the earlier in the output is the earlier frame.
C7_AudioInOrder ==
    \A p \in Blocks : \A q \in Blocks :
        (IsAudioBlock(p) /\ IsAudioBlock(q) /\ p < q)
            => BlockAt(p).frame < BlockAt(q).frame

\* C7, its case: two held audio frames were written by different flushes, the
\* first into the old cluster and the second into the new one.
C7_Witness ==
    \E p \in Blocks : \E q \in Blocks :
        /\ IsAudioBlock(p) /\ IsAudioBlock(q)
        /\ ClusterOf(p) < ClusterOf(q)
        /\ segment.has_video

\* The frames of the blocks of the cluster at c, in file order.
FramesOfCluster(c) ==
    [k \in 1..Len(BlocksOfCluster(c)) |-> BlockAt(BlocksOfCluster(c)[k]).frame]

\* The relative timecodes of the blocks of the cluster at c, in file order.
TimecodesOfCluster(c) ==
    [k \in 1..Len(BlocksOfCluster(c)) |-> BlockAt(BlocksOfCluster(c)[k]).timecode]

\* The client's n-th frame is a video frame.
PassedVideo(n) == Tracks_TrackIsVideo(segment.m_tracks, Passed(n).track_number)

\* Frame n is the first video frame the client passed after frame i.
NextVideoAfter(i, n) ==
    /\ i < n
    /\ PassedVideo(n)
    /\ \A m \in (i + 1)..(n - 1) : ~PassedVideo(m)

\* The cluster written before the cluster at c.
PreviousCluster(c) ==
    CHOOSE d \in Clusters : d < c /\ \A e \in Clusters : e < c => e <= d

\* The run of the example: video(0, key), audio(10 ms), audio(20 ms),
\* video(33 ms, key), with video on track 1 and audio on track 2.
C8_Scenario ==
    /\ Len(history) = 4
    /\ \A i \in 1..4 : history[i].op = "AddFrame" /\ history[i].ret
    /\ history[1].f.track_number = 1 /\ history[1].f.timestamp = 0
    /\ history[1].f.is_key
    /\ history[2].f.track_number = 2 /\ history[2].f.timestamp = 10000000
    /\ history[3].f.track_number = 2 /\ history[3].f.timestamp = 20000000
    /\ history[4].f.track_number = 1 /\ history[4].f.timestamp = 33000000
    /\ history[4].f.is_key

\* C8 as stated: no held audio frame with a timestamp before T is written into
\* the cluster that the frame with timestamp T opens; in the example cluster 0
\* (base 0) holds video-0, audio-10, audio-20 and cluster 1 (base 33) holds
\* only video-33, with one cue point per cluster on the video track.
C8_HeldAudioBeforeTInOldCluster ==
    /\ \A a \in Blocks : \A v \in Blocks :
          (/\ IsAudioBlock(a)
           /\ IsFirstVideoBlock(v)
           /\ ~IsFirstCluster(ClusterOf(v))
           /\ ClusterOf(a) = ClusterOf(v)
           /\ a < v)
              => Passed(BlockAt(a).frame).timestamp
                     >= Passed(BlockAt(v).frame).timestamp
    /\ C8_Scenario =>
          /\ Cardinality(Clusters) = 2
          /\ \A c \in Clusters :
                IF IsFirstCluster(c)
                THEN FramesOfCluster(c) = <<1, 2, 3>> /\ ClusterTimecode(c) = 0
                ELSE FramesOfCluster(c) = <<4>> /\ ClusterTimecode(c) = 33
          /\ Len(segment.cues.cue_entries) = 2
          /\ \A i \in 1..2 : segment.cues.cue_entries[i].track = 1

\* C8 amended: when a video frame with timestamp T opens a cluster after the
\* first, a held audio frame goes into the old cluster only if a frame queued
\* after it has a timestamp <= T; every other held frame, the last one queued
\* always, goes into the new cluster before the video frame.  In the example
\* cluster 0 (base 0) holds video-0 and audio-10, cluster 1 (base 20) holds
\* audio-20 at relative timecode 0 and video-33 at 13, and the two cue points
\* are on the video track with block numbers 1 and 2.
C8_HeldAudioSplitByNextFrame ==
    /\ \A a \in Blocks : \A v \in Blocks :
          (/\ IsAudioBlock(a)
           /\ IsFirstVideoBlock(v)
           /\ ~IsFirstCluster(ClusterOf(v))
           /\ NextVideoAfter(BlockAt(a).frame, BlockAt(v).frame))
              => IF \E j \in (BlockAt(a).frame + 1)..(BlockAt(v).frame - 1) :
                        Passed(j).timestamp <= Passed(BlockAt(v).frame).timestamp
                 THEN ClusterOf(a) = PreviousCluster(ClusterOf(v))
                 ELSE ClusterOf(a) = ClusterOf(v) /\ a < v
    /\ C8_Scenario =>
          /\ Cardinality(Clusters) = 2
          /\ \A c \in Clusters :
                IF IsFirstCluster(c)
                THEN /\ FramesOfCluster(c) = <<1, 2>>
                     /\ ClusterTimecode(c) = 0
                     /\ TimecodesOfCluster(c) = <<0, 10>>
                ELSE /\ FramesOfCluster(c) = <<3, 4>>
                     /\ ClusterTimecode(c) = 20
                     /\ TimecodesOfCluster(c) = <<0, 13>>
          /\ Len(segment.cues.cue_entries) = 2
          /\ \A i \in 1..2 :
                /\ segment.cues.cue_entries[i].track = 1
                /\ segment.cues.cue_entries[i].block_number = i

\* C8, its case: the example has run and its four frames are in the output.
C8_Witness == C8_Scenario /\ Cardinality(Blocks) = 4

\* The offset of the top-level element that follows the cluster at c.
NextTopLevel(c) ==
    LET later == {p \in Clusters \cup FieldsOf("Cues") : p > c}
    IN  IF later = {} THEN EndOfOutput
        ELSE CHOOSE p \in later : \A q \in later : p <= q

\* The 8-byte size field 4 bytes after the id at p holds the value n.
SizeFieldIs(p, n) ==
    /\ (p + 4) \in FieldsOf("Size")
    /\ writer.file[p + 4].val = <<n>>

\* C9: after Finalize returned true in file mode on a seekable writer, the size
\* field of every cluster holds the bytes from the end of that field to the
\* next top-level element, and the Segment size field holds the bytes from the
\* segment payload start to the end of the output.
C9_SizeFieldsHoldPayloadBytes ==
    (JustFinalized /\ segment.mode = kFile /\ writer.seekable) =>
        /\ \A c \in Clusters : SizeFieldIs(c, NextTopLevel(c) - (c + 12))
        /\ \E s \in FieldsOf("Segment") : SizeFieldIs(s, EndOfOutput - (s + 12))

\* C10: when the header reserved a Duration field, a Finalize that returned
\* true has overwritten it with last_timestamp / timecode_scale.
C10_DurationOverwritten ==
    (JustFinalized /\ segment.segment_info.duration_pos # -1) =>
        /\ segment.segment_info.duration_pos \in FieldsOf("Duration")
        /\ writer.file[segment.segment_info.duration_pos].val
               = <<segment.last_timestamp, segment.segment_info.timecode_scale>>

\* The call that has just returned.
LastCall == history[Len(history)]

\* C11: in file mode, a Finalize that returned true on a segment with tracks
\* and no AddFrame call has written the Segment id, the Info and the Tracks
\* element before the Cues element, and the seek head holds exactly the
\* entries Info, Tracks and Cues.
C11_FinalizeEmitsHeader ==
    (segment.mode = kFile /\ Len(history) = 1 /\ JustFinalized) =>
        /\ \E s \in FieldsOf("Segment"), i \in FieldsOf("Info"),
              t \in FieldsOf("Tracks"), c \in FieldsOf("Cues") :
              s < i /\ i < t /\ t < c
        /\ segment.seek_head.seek_entry_id
               = <<"Info", "Tracks", "Cues", kNoId, kNoId>>

\* C12: in live mode the writer is never asked to seek, every Cluster size
\* field and the Segment size field hold the unknown-size value, and the
\* output has no SeekHead placeholder, no SeekHead and no Duration field.
C12_LiveNeverPatches ==
    segment.mode = kLive =>
        /\ writer.seeks = 0
        /\ \A i \in 1..Len(history) : history[i].seeks = 0
        /\ segment.header_written => FieldsOf("Segment") # {}
        /\ \A p \in Clusters \cup FieldsOf("Segment") : SizeFieldIs(p, kUnknownSize)
        /\ FieldsOf("Void") = {}
        /\ FieldsOf("SeekHead") = {}
        /\ FieldsOf("Duration") = {}

\* C12, its case: live mode on a writer that can seek, two clusters written
\* and Finalize returned true.
C12_Witness ==
    /\ segment.mode = kLive
    /\ writer.seekable
    /\ JustFinalized
    /\ Cardinality(Clusters) >= 2

\* C13: in live mode, whatever OutputCues was set to, the new-cue-point flag is
\* never set, the cue list is empty and the output has no Cues element.
C13_LiveMakesNoCues ==
    segment.mode = kLive =>
        /\ ~segment.new_cuepoint
        /\ segment.cues.cue_entries = <<>>
        /\ FieldsOf("Cues") = {}
        /\ FieldsOf("CuePoint") = {}

\* C13, its case: live mode with cues asked for, two video key frames that
\* each opened a cluster, and Finalize returned true.
C13_Witness ==
    /\ segment.mode = kLive
    /\ segment.output_cues
    /\ JustFinalized
    /\ Cardinality({p \in Blocks : IsVideoBlock(p) /\ BlockAt(p).is_key}) >= 2
    /\ Cardinality(Clusters) >= 2

\* C14: on a writer that reports Seekable() == false the writer is never asked
\* to seek, in file mode and in live mode.
C14_NoSeekOnUnseekableWriter ==
    ~writer.seekable =>
        /\ writer.seeks = 0
        /\ \A i \in 1..Len(history) : history[i].seeks = 0

\* C14, its case: file mode on a writer that cannot seek, two clusters written
\* and Finalize returned true.
C14_Witness ==
    /\ ~writer.seekable
    /\ segment.mode = kFile
    /\ JustFinalized
    /\ Cardinality(Clusters) >= 2

\* C15: a second Segment::Finalize on the same segment returns failure.
C15_SecondFinalizeFails ==
    \A i \in 1..Len(history) : \A j \in (i + 1)..Len(history) :
        (history[i].op = "Finalize" /\ history[j].op = "Finalize")
            => ~history[j].ret

\* empty = 0, open (header written) = 1, finalized = 2.
ClusterRank(c) ==
    IF c.finalized THEN 2 ELSE IF c.header_written THEN 1 ELSE 0

\* C16: no call moves a Cluster back in empty -> open -> finalized, and on a
\* finalized Cluster AddFrame and Finalize return failure, write nothing, do
\* not seek and leave blocks_added and payload_size as they were.
C16_ClusterOnlyAdvances ==
    [][/\ ClusterRank(segment'.cluster_list[1])
              >= ClusterRank(segment.cluster_list[1])
       /\ segment.cluster_list[1].finalized =>
              /\ ~history'[Len(history')].ret
              /\ history'[Len(history')].writes = 0
              /\ history'[Len(history')].seeks = 0
              /\ writer' = writer
              /\ segment'.cluster_list[1].blocks_added
                     = segment.cluster_list[1].blocks_added
              /\ segment'.cluster_list[1].payload_size
                     = segment.cluster_list[1].payload_size]_vars

\* C16, its case: a cluster with a block was finalized, and then AddFrame and
\* Finalize were called on it.
C16_Witness ==
    /\ Len(history) = 4
    /\ history[1].op = "AddFrame" /\ history[1].ret
    /\ history[2].op = "Finalize" /\ history[2].ret
    /\ history[3].op = "AddFrame"
    /\ history[4].op = "Finalize"
    /\ segment.cluster_list[1].finalized

\* The timestamps of the frames whose blocks are in the output.
WrittenTimestamps == {Passed(BlockAt(p).frame).timestamp : p \in Blocks}

\* The largest of a set of timestamps, 0 for none.
MaxOf(S) == IF S = {} THEN 0 ELSE CHOOSE m \in S : \A n \in S : n <= m

\* C17: last_timestamp never decreases, and after every call it is the largest
\* timestamp of the frames written into clusters; held frames do not count.
C17_LastTimestampIsMaxWritten ==
    /\ [](segment.last_timestamp = MaxOf(WrittenTimestamps))
    /\ [][segment'.last_timestamp >= segment.last_timestamp]_vars

\* C17, its case: frames were written, and a held audio frame is later than
\* all of them.
C17_Witness ==
    /\ Blocks # {}
    /\ segment.last_timestamp > 0
    /\ \E i \in 1..Len(segment.frames) :
          segment.frames[i].timestamp > segment.last_timestamp

\* The track adds that succeeded, in call order.
TrackAdds ==
    SelectSeq(history, LAMBDA c :
        c.op \in {"AddVideoTrack", "AddAudioTrack"} /\ c.ret)

\* C18: the registered tracks are numbered 1..n in order, the k-th successful
\* add returned k, and no call changes the number of a registered track.
C18_TrackNumbersDense ==
    /\ [](/\ \A i \in 1..Len(segment.m_tracks) : segment.m_tracks[i].number = i
          /\ Len(TrackAdds) = Len(segment.m_tracks)
          /\ \A k \in 1..Len(TrackAdds) : TrackAdds[k].value = k)
    /\ [][\A i \in 1..Len(segment.m_tracks) :
              /\ i <= Len(segment'.m_tracks)
              /\ segment'.m_tracks[i].number = segment.m_tracks[i].number]_vars

\* C18, its case: a video and an audio track were added, one add failed in
\* between, and the cues track was chosen after the first add.
C18_Witness ==
    /\ Len(history) = 4
    /\ history[1].op = "AddVideoTrack" /\ history[1].ret
    /\ history[2].op = "CuesTrack"
    /\ history[3].op = "AddAudioTrack" /\ ~history[3].ret
    /\ history[4].op = "AddAudioTrack" /\ history[4].ret
    /\ Len(segment.m_tracks) = 2

\* The slots of a seek head whose id is 0.
FreeSlots(sh) == {i \in 1..kSeekEntryCount : sh.seek_entry_id[i] = kNoId}

\* C19: AddSeekEntry(id, pos) stores id and pos in the lowest slot whose id is
\* 0, leaves every other slot as it was and returns true; with no such slot
\* it returns false and leaves every slot as it was.
C19_AddSeekEntryFillsFirstFreeSlot ==
    [][IF FreeSlots(segment.seek_head) = {}
       THEN /\ ~history'[Len(history')].ret
            /\ segment'.seek_head = segment.seek_head
       ELSE /\ history'[Len(history')].ret
            /\ segment'.seek_head.start_pos = segment.seek_head.start_pos
            /\ \A i \in 1..kSeekEntryCount :
                  IF i \in FreeSlots(segment.seek_head)
                     /\ \A j \in FreeSlots(segment.seek_head) : i <= j
                  THEN /\ segment'.seek_head.seek_entry_id[i]
                              = history'[Len(history')].arg[1]
                       /\ segment'.seek_head.seek_entry_pos[i]
                              = history'[Len(history')].arg[2]
                  ELSE /\ segment'.seek_head.seek_entry_id[i]
                              = segment.seek_head.seek_entry_id[i]
                       /\ segment'.seek_head.seek_entry_pos[i]
                              = segment.seek_head.seek_entry_pos[i]]_vars

\* C19, its case: five entries were stored and the sixth call was refused.
C19_Witness ==
    /\ Len(history) = MaxSeekCalls
    /\ \A i \in 1..kSeekEntryCount : history[i].ret
    /\ ~LastCall.ret
    /\ FreeSlots(segment.seek_head) = {}

\* C20: CuesTrack(n) returns true and makes n the cues track when a track
\* numbered n is registered; otherwise it returns false and the cues track is
\* what it was.
C20_CuesTrackNeedsRegisteredTrack ==
    [][history'[Len(history')].op = "CuesTrack" =>
          IF \E i \in 1..Len(segment.m_tracks) :
                 segment.m_tracks[i].number = history'[Len(history')].arg
          THEN /\ history'[Len(history')].ret
               /\ segment'.cues_track = history'[Len(history')].arg
          ELSE /\ ~history'[Len(history')].ret
               /\ segment'.cues_track = segment.cues_track]_vars

\* C20, its case: the second of two tracks was made the cues track, and a
\* later CuesTrack of an unregistered number was refused.
C20_Witness ==
    /\ Len(history) = 4
    /\ history[3].op = "CuesTrack" /\ history[3].ret /\ history[3].arg = 2
    /\ history[4].op = "CuesTrack" /\ ~history[4].ret
    /\ segment.cues_track = 2

\* C21: a write or seek that the writer fails during Segment::AddFrame or
\* Segment::Finalize makes that call return failure.
C21_WriterFailureIsReturned ==
    [][writer'.failures > writer.failures => ~history'[Len(history')].ret]_vars

\* A seek failed inside Finalize and a write failed inside AddFrame after
\* blocks had been written.
C21_Witness ==
    /\ writer.failures > 0
    /\ history # <<>>
    /\ history[Len(history)].op = "Finalize"
    /\ ~history[Len(history)].ret
    /\ Len(AddFrameCalls) >= 2

\* The elements a master of one kind can hold, at any depth.
Descendants(kind) ==
    CASE kind = "Info" -> {"TimecodeScale", "Duration", "MuxingApp", "WritingApp"}
      [] kind = "Video" -> {"PixelWidth", "PixelHeight", "DisplayWidth",
                            "DisplayHeight", "StereoMode", "FrameRate"}
      [] kind = "Audio" -> {"SamplingFrequency", "Channels", "BitDepth"}
      [] kind \in {"TrackEntry", "Tracks"} ->
             {"TrackNumber", "TrackUID", "TrackType", "CodecID", "CodecPrivate",
              "Language", "Name", "Video", "Audio", "PixelWidth", "PixelHeight",
              "DisplayWidth", "DisplayHeight", "StereoMode", "FrameRate",
              "SamplingFrequency", "Channels", "BitDepth"}
             \cup (IF kind = "Tracks" THEN {"TrackEntry"} ELSE {})
      [] kind \in {"CueTrackPositions", "CuePoint", "Cues"} ->
             {"CueTrack", "CueClusterPosition", "CueBlockNumber"}
             \cup (IF kind = "CueTrackPositions" THEN {}
                   ELSE {"CueTime", "CueTrackPositions"})
             \cup (IF kind = "Cues" THEN {"CuePoint"} ELSE {})

\* The masters that are written with a size computed beforehand.
SizedMasters ==
    {p \in DOMAIN writer.file :
        writer.file[p].kind \in {"Info", "Tracks", "TrackEntry", "Video", "Audio",
                                 "Cues", "CuePoint", "CueTrackPositions"}}

\* The offset at which the payload the master at p declares ends.
DeclaredEnd(p) == p + writer.file[p].len + writer.file[p].val[1]

\* The fields from the end of the master's header at p to its declared end are
\* its descendants and fill exactly the declared bytes.
DeclaredSizeIsWritten(p) ==
    LET inside == {q \in DOMAIN writer.file : p < q /\ q < DeclaredEnd(p)}
        follows(e) == e = DeclaredEnd(p) \/ e \in inside
    IN  /\ DeclaredEnd(p) <= EndOfOutput
        /\ follows(p + writer.file[p].len)
        /\ \A q \in inside :
              /\ writer.file[q].kind \in Descendants(writer.file[p].kind)
              /\ follows(q + writer.file[q].len)
        /\ DeclaredEnd(p) \in DOMAIN writer.file =>
              writer.file[DeclaredEnd(p)].kind
                  \notin Descendants(writer.file[p].kind)

\* The asserts stop_position - payload_position == size.
SizeAsserts ==
    {"assert Track::Write size", "assert VideoTrack::Write size",
     "assert AudioTrack::Write size", "assert Tracks::Write size",
     "assert CuePoint::Write size", "assert Cues::Write size",
     "assert SegmentInfo::Write size"}

IsBuffered(seg, f) ==
    seg.has_video /\ Tracks_TrackIsAudio(seg.m_tracks, f.track_number)

\* The stated rule for opening a cluster, on the segment before the call.
ClusterRule(seg, f) ==
    \/ seg.cluster_list = <<>>
    \/ f.is_key /\ Tracks_TrackIsVideo(seg.m_tracks, f.track_number)
    \/ /\ seg.cluster_list # <<>>
       /\ \/ /\ seg.max_cluster_duration > 0
             /\ f.timestamp - seg.cluster_list[Len(seg.cluster_list)].timecode
                                  * seg.segment_info.timecode_scale
                    >= seg.max_cluster_duration
          \/ /\ seg.max_cluster_size > 0
             /\ seg.cluster_list[Len(seg.cluster_list)].payload_size
                    >= seg.max_cluster_size

\* C23: an AddFrame of a frame that is not held back opens a new cluster
\* exactly when no cluster exists, the frame is a video key frame, or the
\* duration or size limit of the last cluster is reached; otherwise the frame
\* goes into the last cluster.
C23_NewClusterByRule ==
    [][(/\ Len(history') = Len(history) + 1
        /\ history'[Len(history')].op = "AddFrame"
        /\ history'[Len(history')].ret
        /\ ~IsBuffered(segment, history'[Len(history')].f))
       => IF ClusterRule(segment, history'[Len(history')].f)
          THEN Len(segment'.cluster_list) = Len(segment.cluster_list) + 1
          ELSE /\ Len(segment'.cluster_list) = Len(segment.cluster_list)
               /\ segment'.cluster_list[Len(segment.cluster_list)].blocks_added
                      > segment.cluster_list[Len(segment.cluster_list)].blocks_added]_vars

\* The index of the oldest frame that stays held when the frames before the
\* timestamp are flushed: the first one that is the last of the queue or is
\* followed by a frame after the timestamp.
OldestHeldAfterFlush(frames, timestamp) ==
    CHOOSE h \in 1..Len(frames) :
        /\ h = Len(frames) \/ frames[h + 1].timestamp > timestamp
        /\ \A i \in 1..(h - 1) : frames[i + 1].timestamp <= timestamp

\* The smallest element of a non-empty set of numbers.
MinOf(S) == CHOOSE m \in S : \A n \in S : m <= n

\* C24: the base timecode of a cluster opened by a frame with timestamp T is
\* the smaller of T / timecode_scale and the scaled timestamp of the oldest
\* audio frame still held after the flush, T / timecode_scale when no frame is
\* held; the base timecode of a cluster never changes afterwards.
C24_BaseIsEarliestHeldOrFrame ==
    [][/\ \A k \in 1..Len(segment.cluster_list) :
             /\ k <= Len(segment'.cluster_list)
             /\ segment'.cluster_list[k].timecode = segment.cluster_list[k].timecode
       /\ Len(segment'.cluster_list) > Len(segment.cluster_list) =>
             /\ Len(segment'.cluster_list) = Len(segment.cluster_list) + 1
             /\ segment'.cluster_list[Len(segment'.cluster_list)].timecode
                    = LET T == history'[Len(history')].f.timestamp
                          scale == segment.segment_info.timecode_scale
                      IN  IF segment.frames = <<>> THEN T \div scale
                          ELSE MinOf({T \div scale,
                                      segment.frames[OldestHeldAfterFlush(
                                          segment.frames, T)].timestamp
                                          \div scale})]_vars

\* A cluster after the first was opened with held audio older than the frame
\* and took the audio frame's timecode.
C24_Witness ==
    /\ Len(segment.cluster_list) > 1
    /\ LastCall.op = "AddFrame"
    /\ LastCall.ret
    /\ Tracks_TrackIsVideo(segment.m_tracks, LastCall.f.track_number)
    /\ segment.cluster_list[Len(segment.cluster_list)].blocks_added = 2
    /\ 0 < segment.cluster_list[Len(segment.cluster_list)].timecode
    /\ segment.cluster_list[Len(segment.cluster_list)].timecode
           < LastCall.f.timestamp \div segment.segment_info.timecode_scale

\* C25: WriteFramesLessThan(limit) writes the head of the queue while a frame
\* follows it whose timestamp is at most the limit; of a non-empty queue it
\* leaves at least one frame, and the frames left are a suffix of the queue in
\* their order.
C25_FlushKeepsSuffix ==
    [][(/\ Len(history') = Len(history) + 1
        /\ history'[Len(history')].op = "WriteFramesLessThan"
        /\ history'[Len(history')].ret
        /\ segment.frames # <<>>)
       => /\ segment'.frames # <<>>
          /\ Len(segment'.frames) <= Len(segment.frames)
          /\ segment'.frames
                 = SubSeq(segment.frames,
                          Len(segment.frames) - Len(segment'.frames) + 1,
                          Len(segment.frames))
          /\ Len(segment.frames) - Len(segment'.frames) + 1
                 = OldestHeldAfterFlush(segment.frames,
                                        history'[Len(history')].f.timestamp)
          /\ history'[Len(history')].writes
                 = Len(segment.frames) - Len(segment'.frames)
          /\ segment.cluster_list # <<>> =>
                segment'.cluster_list[Len(segment.cluster_list)].blocks_added
                    = segment.cluster_list[Len(segment.cluster_list)].blocks_added
                      + Len(segment.frames) - Len(segment'.frames)]_vars

\* A flush wrote held frames and kept one whose timestamp is within the limit.
C25_Witness ==
    /\ history # <<>>
    /\ LastCall.op = "WriteFramesLessThan"
    /\ LastCall.ret
    /\ LastCall.writes >= 2
    /\ segment.frames # <<>>
    /\ segment.frames[1].timestamp <= LastCall.f.timestamp

\* C26: with a video track, an AddFrame of an audio frame that returns true
\* appends one copy of the frame to the tail of the hold queue and leaves the
\* clusters alone: no SimpleBlock and no cluster header is written, the
\* cluster list with its counters, the cue points and last_timestamp stay as
\* they are; only the segment header of the first AddFrame may be written.
C26_AudioIsOnlyQueued ==
    [][(/\ Len(history') = Len(history) + 1
        /\ history'[Len(history')].op = "AddFrame"
        /\ history'[Len(history')].ret
        /\ IsBuffered(segment, history'[Len(history')].f))
       => /\ segment'.frames = Append(segment.frames, history'[Len(history')].f)
          /\ segment'.cluster_list = segment.cluster_list
          /\ segment'.cues.cue_entries = segment.cues.cue_entries
          /\ segment'.last_timestamp = segment.last_timestamp
          /\ segment'.new_cluster = segment.new_cluster
          /\ segment'.new_cuepoint = segment.new_cuepoint
          /\ \A p \in DOMAIN writer'.file :
                writer'.file[p].kind \in {"SimpleBlock", "Cluster", "Timecode"}
                    => p \in DOMAIN writer.file /\ writer.file[p] = writer'.file[p]
          /\ segment.header_written => writer' = writer]_vars

\* An audio frame was queued behind another one while a cluster is open.
C26_Witness ==
    /\ history # <<>>
    /\ LastCall.op = "AddFrame"
    /\ LastCall.ret
    /\ IsBuffered(segment, LastCall.f)
    /\ Len(segment.frames) >= 2
    /\ segment.cluster_list # <<>>

\* The lowest-numbered video track, or track 1 when there is none.
FirstVideoOrFirstTrack(seg) ==
    IF \E i \in 1..Len(seg.m_tracks) : seg.m_tracks[i].type = kVideo
    THEN MinOf({seg.m_tracks[i].number :
                   i \in {j \in 1..Len(seg.m_tracks) : seg.m_tracks[j].type = kVideo}})
    ELSE 1

\* The step is the first AddFrame that returned true.
FirstFrameStep ==
    /\ Len(history') = Len(history) + 1
    /\ history'[Len(history')].op = "AddFrame"
    /\ history'[Len(history')].ret
    /\ ~segment.header_written

\* C27 as stated: with no cues track selected when the first frame arrives the
\* cues track becomes the lowest-numbered video track, or track 1 without
\* video; a selected cues track is never replaced.
C27_DefaultCuesTrack ==
    [][IF FirstFrameStep /\ segment.cues_track = 0
       THEN segment'.cues_track = FirstVideoOrFirstTrack(segment)
       ELSE segment'.cues_track = segment.cues_track]_vars

\* C27, amended: the default is chosen only while cue output is enabled; with
\* cue output disabled the cues track stays unselected (0).
C27_DefaultCuesTrackIfOutputCues ==
    [][IF FirstFrameStep /\ segment.cues_track = 0 /\ segment.output_cues
       THEN segment'.cues_track = FirstVideoOrFirstTrack(segment)
       ELSE segment'.cues_track = segment.cues_track]_vars

\* The video track after the audio track became the cues track and has a cue
\* point.
C27_Witness ==
    /\ segment.header_written
    /\ segment.output_cues
    /\ segment.m_tracks[1].type = kAudio
    /\ segment.cues_track = 2
    /\ \E i \in 1..Len(segment.cues.cue_entries) :
          segment.cues.cue_entries[i].track = 2

\* The offset of the block the i-th cue point was made for: the writer was
\* there when the cue point was made, or at the Cluster id when that block is
\* the first of its cluster (0: no such block).
CuedBlock(i) ==
    LET p == segment.payload_pos + segment.cues.cue_entries[i].cluster_pos
    IN  IF p \in Blocks THEN p
        ELSE IF p \in Clusters /\ BlocksOfCluster(p) # <<>>
        THEN BlocksOfCluster(p)[1]
        ELSE 0

\* C28: in file mode with cue output, while no call has failed, every cue
\* point describes a block written on the cues track, with the block's scaled
\* timestamp as its time, the cues track as its track and the block's 1-based
\* index within its cluster as its block number, and no cluster has two cue
\* points.
C28_CuePointsDescribeBlocks ==
    (segment.mode = kFile /\ segment.output_cues /\ Running) =>
        /\ \A i \in 1..Len(segment.cues.cue_entries) :
              /\ CuedBlock(i) \in Blocks
              /\ segment.cues.cue_entries[i].track = segment.cues_track
              /\ BlockAt(CuedBlock(i)).track_number = segment.cues_track
              /\ segment.cues.cue_entries[i].time = ScaledTimestamp(CuedBlock(i))
              /\ segment.cues.cue_entries[i].block_number
                     \in 1..Len(BlocksOfCluster(ClusterOf(CuedBlock(i))))
              /\ BlocksOfCluster(ClusterOf(CuedBlock(i)))[
                     segment.cues.cue_entries[i].block_number] = CuedBlock(i)
        /\ \A i, j \in 1..Len(segment.cues.cue_entries) :
              i # j => ClusterOf(CuedBlock(i)) # ClusterOf(CuedBlock(j))

\* Two clusters have a cue point each, one of them for the second block of its
\* cluster, and Finalize has written them.
C28_Witness ==
    /\ FramesThenFinalize
    /\ Len(segment.cues.cue_entries) = 2
    /\ \E i \in 1..2 : segment.cues.cue_entries[i].block_number = 2
    /\ Cardinality(FieldsOf("CuePoint")) = 2

\* The populated slots of the seek head.
PopulatedSlots ==
    {i \in 1..kSeekEntryCount : segment.seek_head.seek_entry_id[i] # kNoId}

\* The offsets of the fields written from offset p on, in file order.
FieldsFrom(p) == Ascending({q \in DOMAIN writer.file : q >= p})

\* The reserved bytes hold the SeekHead master, a Seek master with a SeekID
\* and a SeekPosition for every populated slot, and then one Void element that
\* ends where the reserved bytes end.
ReservedBytesRewritten(slots) ==
    LET start == segment.seek_head.start_pos
        kinds == [i \in 1..Len(FieldsFrom(start)) |->
                     writer.file[FieldsFrom(start)[i]].kind]
    IN  /\ Len(kinds) = 3 * Cardinality(slots) + 2
        /\ kinds[1] = "SeekHead"
        /\ \A i \in 1..Cardinality(slots) :
              /\ kinds[3 * i - 1] = "Seek"
              /\ kinds[3 * i] = "SeekID"
              /\ kinds[3 * i + 1] = "SeekPosition"
        /\ kinds[Len(kinds)] = "Void"
        /\ FieldsFrom(start)[Len(kinds)]
               + writer.file[FieldsFrom(start)[Len(kinds)]].len
               = start + SeekHead_TotalSize
        /\ writer.end = start + SeekHead_TotalSize

\* C29: SeekHead::Finalize on a seekable writer returns true; with populated
\* slots it rewrites exactly the reserved bytes, master, entries and one Void
\* element, whatever the positions are, and with no populated slot it writes
\* nothing.
C29_FinalizeFillsReservedBytes ==
    (history # <<>> /\ LastCall.op = "Finalize") =>
        /\ LastCall.ret
        /\ writer.pos = writer.end
        /\ IF PopulatedSlots = {}
           THEN DOMAIN writer.file \cap {q \in DOMAIN writer.file :
                    q >= segment.seek_head.start_pos
                    /\ writer.file[q].kind # "Void"} = {}
           ELSE ReservedBytesRewritten(PopulatedSlots)

\* The field at offset p is one a back-patch step may rewrite: the size field
\* of a cluster or of the Segment, or the Duration of the Info element.
IsPatchedField(p) ==
    \/ /\ writer.file[p].kind = "Size"
       /\ \/ p = segment.size_position
          \/ \E k \in 1..Len(segment.cluster_list) :
                p = segment.cluster_list[k].size_position
    \/ /\ writer.file[p].kind = "Duration"
       /\ p = segment.segment_info.duration_pos

\* Offset p lies in the bytes SeekHead::Write reserved with a Void element.
InReservedBytes(p) ==
    /\ segment.seek_head.start_pos \in DOMAIN writer.file
    /\ writer.file[segment.seek_head.start_pos].kind = "Void"
    /\ writer.file[segment.seek_head.start_pos].len = SeekHead_TotalSize
    /\ p >= segment.seek_head.start_pos
    /\ p < segment.seek_head.start_pos + SeekHead_TotalSize

\* What a successful call on a seekable writer does to the output: a field
\* is left as it is, or it is a patched field rewritten in place, or it lies in
\* the reserved bytes of the seek head; everything else is appended, and the
\* writer ends at the end of the output.
OnlyPatchedAndAppended ==
    /\ writer'.pos = writer'.end
    /\ writer'.end >= writer.end
    /\ \A p \in DOMAIN writer.file :
          \/ p \in DOMAIN writer'.file /\ writer'.file[p] = writer.file[p]
          \/ /\ p \in DOMAIN writer'.file
             /\ writer'.file[p].kind = writer.file[p].kind
             /\ writer'.file[p].len = writer.file[p].len
             /\ IsPatchedField(p)
          \/ InReservedBytes(p)
    /\ \A p \in DOMAIN writer'.file \ DOMAIN writer.file :
          p >= writer.end \/ InReservedBytes(p)

\* C30: every successful back-patch (Cluster::Finalize, SegmentInfo::Finalize,
\* SeekHead::Finalize, the Segment size patch) leaves the writer position where
\* it was and changes no byte outside the patched field or the reserved bytes,
\* so a successful AddFrame or Finalize on a seekable writer changes only
\* patched fields and reserved bytes and appends at the end of the output.
C30_BackPatchesTouchOnlyTheirFields ==
    [][(writer.seekable /\ history'[Len(history')].ret)
           => OnlyPatchedAndAppended]_vars

\* The same for the calls made after the segment header was written.
BackPatchesAfterHeader ==
    [][(writer.seekable /\ history'[Len(history')].ret
        /\ segment.header_written) => OnlyPatchedAndAppended]_vars

\* Every cluster of the list but the last is finalized, the last is not.
AllButLastFinalized(list) ==
    \A k \in 1..Len(list) : list[k].finalized <=> k < Len(list)

\* No cluster that was not the last of the list has received a block.
OnlyLastClusterGrows ==
    \A k \in 1..(Len(segment.cluster_list) - 1) :
        segment'.cluster_list[k].blocks_added
            = segment.cluster_list[k].blocks_added

\* C31: in file mode, after a successful AddFrame every cluster but the last
\* is finalized and the last is not, after a successful Finalize every cluster
\* is finalized, and no block is written into a cluster that is not the last.
C31_ClustersFinalizedInOrder ==
    [][(segment.mode = kFile /\ history'[Len(history')].ret) =>
          /\ history'[Len(history')].op = "AddFrame"
                => AllButLastFinalized(segment'.cluster_list)
          /\ history'[Len(history')].op = "Finalize"
                => \A k \in 1..Len(segment'.cluster_list) :
                      segment'.cluster_list[k].finalized
          /\ OnlyLastClusterGrows]_vars

\* The same for the calls of a segment that was not finalized before.
ClustersFinalizedInOrderUntilFinalize ==
    [][(segment.mode = kFile /\ history'[Len(history')].ret
        /\ FinalizeCalls = <<>>) =>
          /\ history'[Len(history')].op = "AddFrame"
                => AllButLastFinalized(segment'.cluster_list)
          /\ history'[Len(history')].op = "Finalize"
                => \A k \in 1..Len(segment'.cluster_list) :
                      segment'.cluster_list[k].finalized
          /\ OnlyLastClusterGrows]_vars

\* The slots of the seek head that hold an entry for the element id.
SlotsOf(id) ==
    {i \in 1..kSeekEntryCount : segment.seek_head.seek_entry_id[i] = id}

\* The seek head has one entry for the element, and the entry holds the
\* offset of the element's only occurrence from the start of the payload.
IndexedOnce(id) ==
    /\ Cardinality(SlotsOf(id)) = 1
    /\ Cardinality(FieldsOf(id)) = 1
    /\ \A i \in SlotsOf(id) :
          FieldsOf(id)
              = {segment.payload_pos + segment.seek_head.seek_entry_pos[i]}

C33_FlushHasCluster ==
    proc.fault # "assert cluster_list_size_ > 0"

\* C34: after every successful AddFrame every cluster of the list has its
\* header written, with the position of its size field recorded and a Cluster
\* id in the output there, and holds at least one block; the assertion
\* size_position_ != -1 of Cluster::Finalize never fails.
C34_NoEmptyCluster ==
    /\ proc.fault # "assert size_position_ != -1"
    /\ (history # <<>> /\ LastCall.op = "AddFrame" /\ LastCall.ret) =>
          \A k \in 1..Len(segment.cluster_list) :
              /\ segment.cluster_list[k].header_written
              /\ segment.cluster_list[k].size_position # -1
              /\ (segment.cluster_list[k].size_position - 4)
                     \in FieldsOf("Cluster")
              /\ segment.cluster_list[k].blocks_added >= 1

\* A successful AddFrame has opened a second cluster in file mode and the
\* first one was finalized.
C34_Witness ==
    /\ history # <<>>
    /\ LastCall.op = "AddFrame"
    /\ LastCall.ret
    /\ proc.fault = "none"
    /\ segment.mode = kFile
    /\ Len(segment.cluster_list) >= 2
    /\ segment.cluster_list[1].finalized

====
